---- MODULE Spec2Model ----
(***************************************************************************)
(* The per-connection request/response pipeline of tiny-http:              *)
(* ClientConnection (src/src/client.rs), the header parser of              *)
(* src/src/common.rs and the pieces of request.rs / util that the          *)
(* connection drives (sequential reader and writer chains, body framing,   *)
(* respond / upgrade / drop).                                              *)
(*                                                                         *)
(* The byte stream is a sequence over a symbolic alphabet: the delimiter   *)
(* octets CR, LF, SP, HT and ':' are single symbols, one symbol stands for *)
(* an octet >= 0x80, and every other symbol is a word, a run of visible    *)
(* ASCII octets without delimiters that the parsers never look inside      *)
(* (except through ToAsciiLowercase and StrContains).                      *)
(***************************************************************************)
EXTENDS Integers, Sequences, FiniteSets, TLC

\* ------------------------------------------------------------------ bounds
MaxMsgs == 2        \* messages the client sends on one connection
MaxConnMsgs == 1    \* the same, when every Connection header is tried
MaxAfterNone == 1   \* calls of next() made after it first returned None
MaxLine == 4        \* symbols in a line handed to Header::from_str
MaxReqLine == 7     \* symbols in a line handed to parse_request_line
MaxBody == 2        \* bytes a response body reader yields, and declared length
MaxHeaders == 2     \* add_header / with_header calls on one Response
MaxTE == 2          \* elements in the value of a TE request header
MaxTlsOps == 2      \* calls one holder of a RustlsStream clone makes
MaxInput == 4       \* symbols in the stream handed to read_next_line
MaxTlsBytes == 1    \* records of the peer waiting in the socket of a TLS stream
MaxPem == 2         \* sections in a PEM file handed to RustlsContext::from_pem

\* ---------------------------------------------------------------- alphabet
CR == "<CR>"
LF == "<LF>"
SP == "<SP>"
HT == "<HT>"
COLON == ":"
NONASCII == "<E9>"      \* an octet >= 0x80 that is not white space
NBSP == "<A0>"          \* U+00A0: not ASCII, but char::is_whitespace

\* char::is_whitespace on the symbols of the alphabet
IsWhitespace(c) == c \in {SP, HT, CR, LF, NBSP}

\* AsciiString::from_ascii succeeds
IsAscii(s) == \A i \in 1..Len(s) : s[i] \notin {NONASCII, NBSP}

\* words that are HTTP tokens (tchar+): valid as method and as header name
TokenWords ==
  {"GET", "POST", "Connection", "connection", "close", "Close", "closed",
   "upgrade", "Upgrade", "keep-alive", "Keep-Alive", "Transfer-Encoding",
   "transfer-encoding", "Transfer", "Encoding", "Content-Length",
   "content-length", "Expect", "expect", "100-continue", "chunked", "other",
   "Host", "host", "x", "y", "0", "1", "2"}

\* words the request target parser accepts
UriWords == {"/"}

\* str::to_ascii_lowercase on one symbol
ToAsciiLowercase(w) ==
  CASE w = "Connection" -> "connection"
    [] w = "Close" -> "close"
    [] w = "Upgrade" -> "upgrade"
    [] w = "Keep-Alive" -> "keep-alive"
    [] w = "Transfer-Encoding" -> "transfer-encoding"
    [] w = "Content-Length" -> "content-length"
    [] w = "Expect" -> "expect"
    [] w = "Host" -> "host"
    [] w = "Chunked" -> "chunked"
    [] w = "Identity" -> "identity"
    [] OTHER -> w

LowerSeq(s) == [i \in 1..Len(s) |-> ToAsciiLowercase(s[i])]

\* str::contains(needle) on a lower-cased value: a substring test.  The only
\* word of the alphabet that properly contains another one is "closed".
StrContains(s, needle) ==
  \E i \in 1..Len(s) : s[i] = needle \/ (s[i] = "closed" /\ needle = "close")

\* ----------------------------------------------------------- seq utilities
Min(a, b) == IF a < b THEN a ELSE b

Take(s, n) == SubSeq(s, 1, Min(n, Len(s)))

Drop(s, n) == SubSeq(s, Min(n, Len(s)) + 1, Len(s))

\* index of the first occurrence of c in s, 0 when there is none
FirstIndex(s, c) ==
  IF \E i \in 1..Len(s) : s[i] = c
  THEN CHOOSE i \in 1..Len(s) : s[i] = c /\ \A j \in 1..(i - 1) : s[j] # c
  ELSE 0

RECURSIVE TrimStart(_)
TrimStart(s) ==
  IF s # <<>> /\ IsWhitespace(Head(s)) THEN TrimStart(Tail(s)) ELSE s

RECURSIVE TrimEnd(_)
TrimEnd(s) ==
  IF s # <<>> /\ IsWhitespace(s[Len(s)])
  THEN TrimEnd(SubSeq(s, 1, Len(s) - 1)) ELSE s

\* str::trim
Trim(s) == TrimEnd(TrimStart(s))

\* str::split(sep): the parts between the separators, empty parts included
RECURSIVE Split(_, _)
Split(s, sep) ==
  LET i == FirstIndex(s, sep)
  IN IF i = 0 THEN <<s>>
     ELSE <<SubSeq(s, 1, i - 1)>> \o Split(SubSeq(s, i + 1, Len(s)), sep)

\* ------------------------------------------------------------ HTTP versions
\* http::Version orders its values 0.9 < 1.0 < 1.1 < 2.0 < 3.0
HTTP_09 == 9
HTTP_10 == 10
HTTP_11 == 11
HTTP_2 == 20
HTTP_3 == 30

Versions == {HTTP_09, HTTP_10, HTTP_11, HTTP_2, HTTP_3}

\* capacity of the BufReader shared by all reader slots
BufCapacity == 1024

\* ------------------------------------------------------------------ parsers
\* client.rs parse_http_version: 0 stands for Err(WrongRequestLine)
parse_http_version(version) ==
  CASE version = <<"HTTP/0.9">> -> HTTP_09
    [] version = <<"HTTP/1.0">> -> HTTP_10
    [] version = <<"HTTP/1.1">> -> HTTP_11
    [] version = <<"HTTP/2.0">> -> HTTP_2
    [] version = <<"HTTP/3.0">> -> HTTP_3
    [] OTHER -> 0

\* http::Method::from_str: a non-empty token
MethodOk(w) == Len(w) >= 1 /\ \A i \in 1..Len(w) : w[i] \in TokenWords

\* http::Uri::from_str
UriOk(w) == Len(w) = 1 /\ w[1] \in UriWords

\* client.rs parse_request_line: the first three parts of split(' ') are
\* parsed, whatever follows them is not looked at
parse_request_line(line) ==
  LET parts == Split(line, SP)
      n == Len(parts)
      method == IF n >= 1 /\ MethodOk(parts[1]) THEN parts[1] ELSE <<>>
      path == IF n >= 2 /\ UriOk(parts[2]) THEN parts[2] ELSE <<>>
      version == IF n >= 3 THEN parse_http_version(parts[3]) ELSE 0
  IN IF method # <<>> /\ path # <<>> /\ version # 0
     THEN [ok |-> TRUE, method |-> method, path |-> path, version |-> version]
     ELSE [ok |-> FALSE, method |-> <<>>, path |-> <<>>, version |-> 0]

\* http::HeaderName::from_str: a non-empty token, stored in lower case
HeaderNameOk(name) ==
  Len(name) >= 1 /\ \A i \in 1..Len(name) : name[i] \in TokenWords

\* http::HeaderValue::from_str: visible ASCII, SP and HT only
HeaderValueOk(value) ==
  \A i \in 1..Len(value) : value[i] \notin {CR, LF, NONASCII, NBSP}

\* client.rs read(), lines 127-133: one header line
ParseHeaderLine(line) ==
  LET header == Trim(line)
      i == FirstIndex(header, COLON)
      name == SubSeq(header, 1, i - 1)
      value == Trim(SubSeq(header, i + 1, Len(header)))
  IN IF i = 0 \/ ~HeaderNameOk(name) \/ ~HeaderValueOk(value)
     THEN [ok |-> FALSE, name |-> <<>>, value |-> <<>>]
     ELSE [ok |-> TRUE, name |-> LowerSeq(name), value |-> value]

\* a reader that ends the line at every LF
RECURSIVE read_next_line_any_lf(_, _, _, _, _)
read_next_line_any_lf(buf, sock, closed, acc, prev_byte_was_cr) ==
  IF buf = <<>>
  THEN IF sock = <<>>
       THEN [res |-> IF closed THEN "ConnectionAborted" ELSE "WouldBlock",
             line |-> acc, buf |-> buf, sock |-> sock]
       ELSE read_next_line_any_lf(Take(sock, BufCapacity),
                                  Drop(sock, BufCapacity), closed, acc,
                                  prev_byte_was_cr)
  ELSE LET byte == Head(buf)
       IN IF byte = LF
          THEN LET line == SubSeq(acc, 1, Len(acc) - 1)
               IN [res |-> IF IsAscii(line) THEN "Ok" ELSE "InvalidInput",
                   line |-> line, buf |-> Tail(buf), sock |-> sock]
          ELSE read_next_line_any_lf(Tail(buf), sock, closed,
                                     Append(acc, byte), byte = CR)

\* client.rs read_next_line over the shared BufReader `buf` and the socket
\* `sock`: bytes are taken one at a time, the buffer is refilled from the
\* socket when it runs empty.  res is Ok, InvalidInput (line not ASCII),
\* ConnectionAborted (EOF before CRLF) or WouldBlock (the read has to wait).
RECURSIVE read_next_line(_, _, _, _, _)
read_next_line(buf, sock, closed, acc, prev_byte_was_cr) ==
  IF buf = <<>>
  THEN IF sock = <<>>
       THEN [res |-> IF closed THEN "ConnectionAborted" ELSE "WouldBlock",
             line |-> acc, buf |-> buf, sock |-> sock]
       ELSE read_next_line(Take(sock, BufCapacity), Drop(sock, BufCapacity),
                           closed, acc, prev_byte_was_cr)
  ELSE LET byte == Head(buf)
       IN IF byte = LF /\ prev_byte_was_cr
          THEN LET line == SubSeq(acc, 1, Len(acc) - 1)
               IN [res |-> IF IsAscii(line) THEN "Ok" ELSE "InvalidInput",
                   line |-> line, buf |-> Tail(buf), sock |-> sock]
          ELSE read_next_line(Tail(buf), sock, closed, Append(acc, byte),
                              byte = CR)

\* ------------------------------------------------------------ header lists
\* HeaderMap::get: the value of the first header of that name
HasHeader(headers, name) ==
  \E i \in 1..Len(headers) : headers[i].name = <<name>>

GetHeader(headers, name) ==
  headers[CHOOSE i \in 1..Len(headers) :
            /\ headers[i].name = <<name>>
            /\ \A j \in 1..(i - 1) : headers[j].name # <<name>>].value

\* decimal and hexadecimal digits of the alphabet; -1 when not a number
ParseNat(value) ==
  CASE value = <<"0">> -> 0
    [] value = <<"1">> -> 1
    [] value = <<"2">> -> 2
    [] OTHER -> -1

\* -------------------------------------------------- request.rs (body framing)
\* body framing in which Content-Length is looked at first
new_request_length_first(headers) ==
  LET expect == IF HasHeader(headers, "expect")
                THEN LowerSeq(GetHeader(headers, "expect")) ELSE <<>>
      chunked == /\ HasHeader(headers, "transfer-encoding")
                 /\ ~HasHeader(headers, "content-length")
      length == IF HasHeader(headers, "content-length")
                THEN ParseNat(GetHeader(headers, "content-length")) ELSE 0
  IN [ok |-> expect \in {<<>>, <<"100-continue">>},
      armed |-> expect = <<"100-continue">>,
      framing |-> IF chunked THEN "chunked" ELSE "length",
      length |-> IF chunked \/ length < 0 THEN 0 ELSE length]

\* new_request: Expect handling and the choice of the body framing
new_request(headers) ==
  LET expect == IF HasHeader(headers, "expect")
                THEN LowerSeq(GetHeader(headers, "expect")) ELSE <<>>
      chunked == /\ HasHeader(headers, "transfer-encoding")
                 /\ StrContains(LowerSeq(GetHeader(headers,
                                                   "transfer-encoding")),
                                "chunked")
      length == IF HasHeader(headers, "content-length")
                THEN ParseNat(GetHeader(headers, "content-length")) ELSE 0
  IN [ok |-> expect \in {<<>>, <<"100-continue">>},
      armed |-> expect = <<"100-continue">>,
      framing |-> IF chunked THEN "chunked" ELSE "length",
      length |-> IF chunked \/ length < 0 THEN 0 ELSE length]

\* number of stream symbols a body of Content-Length n still takes from
\* `avail`; -1 when the reader has to wait for more
LengthExtent(n, avail, closed) ==
  IF Len(avail) >= n THEN n
  ELSE IF closed THEN Len(avail) ELSE -1

\* number of stream symbols the chunked decoder takes from `avail` up to and
\* including the terminating chunk; it stops at a malformed size line
RECURSIVE ChunkedExtent(_, _, _)
ChunkedExtent(avail, closed, done) ==
  LET r == read_next_line(avail, <<>>, closed, <<>>, FALSE)
      used == Len(avail) - Len(r.buf)
      size == ParseNat(Trim(r.line))
      rest == r.buf
  IN IF r.res = "WouldBlock" THEN -1
     ELSE IF r.res # "Ok" \/ size < 0 THEN done + used
     ELSE IF size = 0
          THEN LET t == read_next_line(rest, <<>>, closed, <<>>, FALSE)
               IN IF t.res = "WouldBlock" THEN -1
                  ELSE done + used + (Len(rest) - Len(t.buf))
     ELSE IF Len(rest) >= size + 2
          THEN ChunkedExtent(Drop(rest, size + 2), closed,
                             done + used + size + 2)
     ELSE IF closed THEN done + Len(avail) ELSE -1

BodyExtent(framing, length, avail, closed) ==
  IF framing = "chunked" THEN ChunkedExtent(avail, closed, 0)
  ELSE LengthExtent(length, avail, closed)

\* n symbols read through the shared BufReader
RECURSIVE Consume(_, _, _)
Consume(buf, sock, n) ==
  IF n = 0 THEN [buf |-> buf, sock |-> sock]
  ELSE IF buf = <<>>
       THEN Consume(Take(sock, BufCapacity), Drop(sock, BufCapacity), n)
       ELSE Consume(Tail(buf), sock, n - 1)

\* ----------------------------------------------------------------- messages
CRLF == <<CR, LF>>

RequestLine(method, version) == <<method, SP, "/", SP, version>> \o CRLF

HeaderLine(name, value) == <<name, COLON, SP>> \o value \o CRLF

ChunkedBody == <<"1", CR, LF, "x", CR, LF, "0", CR, LF, CR, LF>>

\* well-formed requests: keep-alive, upgrade, bodies and 100-continue
PipelineMsgs ==
  { RequestLine("GET", "HTTP/1.1") \o CRLF,
    RequestLine("GET", "HTTP/1.1")
      \o HeaderLine("Connection", <<"Upgrade">>) \o CRLF,
    RequestLine("POST", "HTTP/1.1")
      \o HeaderLine("Transfer-Encoding", <<"chunked">>)
      \o HeaderLine("Content-Length", <<"1">>) \o CRLF \o ChunkedBody,
    RequestLine("POST", "HTTP/1.1")
      \o HeaderLine("Expect", <<"100-continue">>)
      \o HeaderLine("Content-Length", <<"2">>) \o CRLF \o <<"x", "y">> }

\* a client that sends Expect: 100-continue and holds the body back, and a
\* request whose body is not announced
ExpectMsgs ==
  { RequestLine("POST", "HTTP/1.1")
      \o HeaderLine("Expect", <<"100-continue">>)
      \o HeaderLine("Content-Length", <<"2">>) \o CRLF,
    <<"x", "y">>,
    RequestLine("POST", "HTTP/1.1")
      \o HeaderLine("Content-Length", <<"2">>) \o CRLF \o <<"x", "y">> }

\* one request of every version parse_http_version knows
VersionMsgs ==
  { RequestLine("GET", v) \o CRLF :
      v \in {"HTTP/0.9", "HTTP/1.0", "HTTP/1.1", "HTTP/2.0", "HTTP/3.0"} }

\* malformed request lines and header lines, and the strict-header table
ParseMsgs ==
  { RequestLine("GET", "HTTP/1.1") \o CRLF,
    <<"GET", SP, "/">> \o CRLF \o CRLF,
    RequestLine("GET", "HTTP/1.1") \o <<"Host", SP, "x">> \o CRLF \o CRLF,
    RequestLine("POST", "HTTP/1.1")
      \o <<SP>> \o HeaderLine("Transfer-Encoding", <<"chunked">>)
      \o CRLF \o ChunkedBody,
    RequestLine("POST", "HTTP/1.0")
      \o <<"Transfer-Encoding", SP, COLON, SP, "chunked">> \o CRLF \o CRLF,
    RequestLine("POST", "HTTP/1.1")
      \o <<"Transfer", SP, "Encoding", COLON, SP, "chunked">> \o CRLF \o CRLF,
    RequestLine("POST", "HTTP/1.1")
      \o <<"Transfer", HT, "Encoding", COLON, "chunked">> \o CRLF \o CRLF,
    RequestLine("GET", "HTTP/1.1")
      \o <<"Host", COLON, SP, SP, "x", SP>> \o CRLF \o CRLF,
    RequestLine("GET", "HTTP/1.1")
      \o HeaderLine("Host", <<NONASCII>>) \o CRLF,
    RequestLine("GET", "HTTP/1.1")
      \o HeaderLine("Expect", <<"other">>) \o CRLF,
    <<"GET", SP, "/", SP, "HTTP/1.1", CR>> }

\* every version with every shape of the Connection header
ConnectionValues ==
  { <<"close">>, <<"Close">>, <<"closed">>, <<"keep-alive">>,
    <<"Keep-Alive">>, <<"upgrade">>, <<"keep-alive", ",", SP, "close">>,
    <<"x">> }

ConnectionMsgs ==
  { RequestLine("GET", v) \o CRLF : v \in {"HTTP/0.9", "HTTP/1.0", "HTTP/1.1"} }
  \cup { RequestLine("GET", v) \o HeaderLine("Connection", c) \o CRLF :
           v \in {"HTTP/0.9", "HTTP/1.0", "HTTP/1.1"}, c \in ConnectionValues }

\* --------------------------------------------------- common.rs (Header)
\* a field parser that only tests for ASCII
HeaderField_from_str_lax(s) ==
  IF IsAscii(s) THEN [ok |-> TRUE, field |-> s]
  ELSE [ok |-> FALSE, field |-> <<>>]

\* impl FromStr for HeaderField: no white space, ASCII only
HeaderField_from_str(s) ==
  IF \E i \in 1..Len(s) : IsWhitespace(s[i]) THEN [ok |-> FALSE, field |-> <<>>]
  ELSE IF IsAscii(s) THEN [ok |-> TRUE, field |-> s]
  ELSE [ok |-> FALSE, field |-> <<>>]

\* impl FromStr for Header: splitn(2, ':'), the field from the first part,
\* the value from the trimmed second part, which must be ASCII
Header_from_str(input) ==
  LET i == FirstIndex(input, COLON)
      first == IF i = 0 THEN input ELSE SubSeq(input, 1, i - 1)
      field == HeaderField_from_str(first)
      v == Trim(SubSeq(input, i + 1, Len(input)))
  IN IF ~field.ok THEN [st |-> "Err", field |-> <<>>, value |-> <<>>]
     ELSE IF i = 0 \/ ~IsAscii(v)
          THEN [st |-> "Err", field |-> <<>>, value |-> <<>>]
     ELSE [st |-> "Ok", field |-> field.field, value |-> v]

\* a Display that leaves out the space after the colon
Header_fmt_bare(h) == h.field \o <<COLON>> \o h.value

\* impl Display for Header: "{}: {}" of the field and the value
Header_fmt(h) == h.field \o <<COLON, SP>> \o h.value

\* the lines handed to Header::from_str
LineAlphabet == {"a", SP, COLON, NONASCII, NBSP}

Lines == UNION {[1..n -> LineAlphabet] : n \in 0..MaxLine}

\* ------------------------------------------------- response.rs (Response)
\* http::HeaderMap as the sequence its iterator yields: the names in the
\* order of their first insertion, the values of one name together
HMHas(h, name) == \E i \in 1..Len(h) : h[i].name = name

HMLast(h, name) ==
  CHOOSE i \in 1..Len(h) :
    h[i].name = name /\ \A j \in (i + 1)..Len(h) : h[j].name # name

HMFirst(h, name) ==
  CHOOSE i \in 1..Len(h) :
    h[i].name = name /\ \A j \in 1..(i - 1) : h[j].name # name

\* HeaderMap::append: one more value for the name
HMAppend(h, name, value) ==
  LET e == [name |-> name, value |-> value]
  IN IF HMHas(h, name)
     THEN SubSeq(h, 1, HMLast(h, name)) \o <<e>>
            \o SubSeq(h, HMLast(h, name) + 1, Len(h))
     ELSE Append(h, e)

\* an insert that keeps the values the name already has
HMInsertKeeps(h, name, value) == HMAppend(h, name, value)

\* HeaderMap::insert: the value replaces every value of the name
HMInsert(h, name, value) ==
  LET e == [name |-> name, value |-> value]
  IN IF HMHas(h, name)
     THEN SubSeq(h, 1, HMFirst(h, name) - 1) \o <<e>>
            \o SubSeq(h, HMLast(h, name) + 1, Len(h))
     ELSE Append(h, e)

\* raw_print's insert_first_header: the value goes ahead of the values the
\* name already has
insert_first_header(h, name, value) ==
  LET e == [name |-> name, value |-> value]
  IN IF HMHas(h, name)
     THEN SubSeq(h, 1, HMFirst(h, name) - 1) \o <<e>>
            \o SubSeq(h, HMFirst(h, name), Len(h))
     ELSE Append(h, e)

\* the names add_header ignores
ForbiddenHeaders == {"connection", "trailer", "transfer-encoding", "upgrade"}

\* a parser that reads every other value as 0
ParseUsizeLenient(value) ==
  CASE value = "0" -> 0
    [] value = "1" -> 1
    [] value = "2" -> 2
    [] value = "3" -> 3
    [] OTHER -> 0

\* usize::from_str on a header value; -1 when it does not parse
ParseUsize(value) ==
  CASE value = "0" -> 0
    [] value = "1" -> 1
    [] value = "2" -> 2
    [] value = "3" -> 3
    [] OTHER -> -1

\* Response::chunked_threshold: 32768 unless with_chunked_threshold set it
DefaultChunkedThreshold == 32768

chunked_threshold(r) ==
  IF r.chunked_threshold < 0 THEN DefaultChunkedThreshold
  ELSE r.chunked_threshold

\* add_header without the list of ignored names
add_header_unfiltered(r, name, value) ==
  IF name = "content-length"
  THEN IF ParseUsize(value) >= 0
       THEN [r EXCEPT !.data_length = ParseUsize(value)]
       ELSE r
  ELSE IF name = "content-type"
       THEN [r EXCEPT !.headers = HMInsert(@, name, value)]
  ELSE [r EXCEPT !.headers = HMAppend(@, name, value)]

\* Response::add_header (and with_header, which calls it)
add_header(r, name, value) ==
  IF name \in ForbiddenHeaders THEN r
  ELSE IF name = "content-length"
       THEN IF ParseUsize(value) >= 0
            THEN [r EXCEPT !.data_length = ParseUsize(value)]
            ELSE r
  ELSE IF name = "content-type"
       THEN [r EXCEPT !.headers = HMInsert(@, name, value)]
  ELSE [r EXCEPT !.headers = HMAppend(@, name, value)]

RECURSIVE add_headers(_, _)
add_headers(r, hs) ==
  IF hs = <<>> THEN r
  ELSE add_headers(add_header(r, Head(hs).name, Head(hs).value), Tail(hs))

\* Response::new: data_length -1 is None; the headers go through
\* add_header, and so do the headers received from additional_headers
\* (<<>> for None, <<hs>> for a channel that delivers hs and is closed);
\* the channel itself is not kept
Response_new(status_code, headers, data, data_length, additional_headers) ==
  add_headers(
    add_headers([status_code |-> status_code, headers |-> <<>>,
                 reader |-> data, data_length |-> data_length,
                 chunked_threshold |-> -1],
                headers),
    IF additional_headers = <<>> THEN <<>> ELSE additional_headers[1])

\* impl FromStr for TransferEncoding; "None" is Err
TransferEncoding_from_str(input) ==
  IF ToAsciiLowercase(input) = "identity" THEN "Identity"
  ELSE IF ToAsciiLowercase(input) = "chunked" THEN "Chunked"
  ELSE "None"

\* f32::from_str on the words that stand for a q value, in thousandths;
\* <<>> is Err
ParseQ(w) ==
  CASE w = <<"0">> -> <<0>>
    [] w = <<"0.5">> -> <<500>>
    [] w = <<"1">> -> <<1000>>
    [] OTHER -> <<>>

\* the q of one element: the first parameter q=f whose f parses, else 1
RECURSIVE ElementQ(_)
ElementQ(params) ==
  IF params = <<>> THEN 1000
  ELSE LET p == TrimStart(Head(params))
       IN IF p # <<>> /\ p[1] = "q=" /\ ParseQ(Trim(Tail(p))) # <<>>
          THEN ParseQ(Trim(Tail(p)))[1]
          ELSE ElementQ(Tail(params))

\* util::parse_header_value: the elements between the commas, each its
\* trimmed token and its q
parse_header_value(input) ==
  LET elems == Split(input, ",")
  IN [k \in 1..Len(elems) |->
        LET params == Split(elems[k], ";")
        IN [token |-> Trim(params[1]), q |-> ElementQ(Tail(params))]]

\* slice::sort_by with b.q compared to a.q: stable, greatest q first
RECURSIVE InsertByQ(_, _)
InsertByQ(sorted, e) ==
  IF sorted = <<>> THEN <<e>>
  ELSE IF Head(sorted).q >= e.q
       THEN <<Head(sorted)>> \o InsertByQ(Tail(sorted), e)
  ELSE <<e>> \o sorted

\* a sort that leaves the elements as they are listed
SortByQListed(s) == s

RECURSIVE SortByQ(_)
SortByQ(s) ==
  IF s = <<>> THEN <<>>
  ELSE InsertByQ(SortByQ(SubSeq(s, 1, Len(s) - 1)), s[Len(s)])

\* choose_transfer_encoding 142-154: the first element with q > 0 whose
\* token is a TransferEncoding
RECURSIVE FirstRequested(_)
FirstRequested(parse) ==
  IF parse = <<>> THEN "None"
  ELSE LET value == Head(parse)
           te == IF Len(value.token) = 1
                 THEN TransferEncoding_from_str(value.token[1]) ELSE "None"
       IN IF value.q <= 0 THEN FirstRequested(Tail(parse))
          ELSE IF te # "None" THEN te
          ELSE FirstRequested(Tail(parse))

\* choose_transfer_encoding 128-155: what the request's TE header asks for;
\* te is the value of the header, <<>> when the request has none
TERequest(te) ==
  IF te = <<>> THEN "None"
  ELSE FirstRequested(SortByQ(parse_header_value(te)))

\* StatusCode::is_informational
is_informational(status_code) == status_code >= 100 /\ status_code < 200

\* a choice that goes chunked only above the threshold
choose_transfer_encoding_above(status_code, te, http_version, entity_length, has_additional_headers, threshold) ==
  IF http_version <= HTTP_10 THEN "Identity"
  ELSE IF is_informational(status_code) \/ status_code = 204 THEN "Identity"
  ELSE IF TERequest(te) # "None" THEN TERequest(te)
  ELSE IF has_additional_headers THEN "Chunked"
  ELSE IF entity_length < 0 \/ entity_length > threshold THEN "Chunked"
  ELSE "Identity"

\* response.rs choose_transfer_encoding; entity_length -1 is None
choose_transfer_encoding(status_code, te, http_version, entity_length, has_additional_headers, threshold) ==
  IF http_version <= HTTP_10 THEN "Identity"
  ELSE IF is_informational(status_code) \/ status_code = 204 THEN "Identity"
  ELSE IF TERequest(te) # "None" THEN TERequest(te)
  ELSE IF has_additional_headers THEN "Chunked"
  ELSE IF entity_length < 0 \/ entity_length >= threshold THEN "Chunked"
  ELSE "Identity"

\* raw_print 433-440: io::copy of the reader to its end
IdentityBody(reader, data_length) ==
  IF data_length >= 1 THEN reader ELSE <<>>

\* status codes whose responses carry no body
NoBodyStatusInformational(status_code) == is_informational(status_code)

\* raw_print 387-391
NoBodyStatus(status_code) ==
  (status_code >= 100 /\ status_code <= 199) \/ status_code \in {204, 304}

\* {:x} of a chunk length
HexDigits == <<"0", "1", "2", "3", "4", "5", "6", "7", "8", "9", "a", "b",
               "c", "d", "e", "f">>

RECURSIVE ToHex(_)
ToHex(n) ==
  IF n < 16 THEN <<HexDigits[n + 1]>>
  ELSE ToHex(n \div 16) \o <<HexDigits[(n % 16) + 1]>>

\* chunked_transfer::Encoder: size of the buffer that makes one chunk
ChunkSize == 8192

\* an encoder that leaves the terminating chunk out
ChunkedEncodeNoEnd(data) ==
  IF data = <<>> THEN <<>>
  ELSE ToHex(Len(data)) \o <<CR, LF>> \o data \o <<CR, LF>>

\* chunked_transfer::Encoder fed by io::copy and dropped: full buffers go
\* out as chunks, the rest goes out at the drop, followed by the last chunk
RECURSIVE ChunkedEncode(_)
ChunkedEncode(data) ==
  IF data = <<>> THEN <<"0", CR, LF, CR, LF>>
  ELSE LET n == Min(Len(data), ChunkSize)
       IN ToHex(n) \o <<CR, LF>> \o Take(data, n) \o <<CR, LF>>
            \o ChunkedEncode(Drop(data, n))

\* {:?} of http::Version
VersionWord(v) ==
  CASE v = HTTP_09 -> "HTTP/0.9"
    [] v = HTTP_10 -> "HTTP/1.0"
    [] v = HTTP_11 -> "HTTP/1.1"
    [] v = HTTP_2 -> "HTTP/2.0"
    [] v = HTTP_3 -> "HTTP/3.0"

RECURSIVE HeaderLines(_)
HeaderLines(h) ==
  IF h = <<>> THEN <<>>
  ELSE <<Head(h).name, COLON, SP, Head(h).value, CR, LF>>
         \o HeaderLines(Tail(h))

\* response.rs write_message_header; the reason phrase of the status line
\* is left out
write_message_header(http_version, status_code, headers) ==
  <<VersionWord(http_version), SP, ToString(status_code), CR, LF>>
    \o HeaderLines(headers) \o <<CR, LF>>

\* a header block to which both framing headers are added
FramingHeadersBoth(headers, transfer_encoding, data_length) ==
  IF transfer_encoding = "None" THEN headers
  ELSE HMAppend(HMAppend(headers, "transfer-encoding", "chunked"),
                "content-length", ToString(data_length))

\* raw_print 393-413: the framing header
FramingHeaders(headers, transfer_encoding, data_length) ==
  IF transfer_encoding = "Chunked"
  THEN HMAppend(headers, "transfer-encoding", "chunked")
  ELSE IF transfer_encoding = "Identity"
  THEN HMAppend(headers, "content-length", ToString(data_length))
  ELSE headers

\* raw_print 342-349 and 361-368: the local transfer_encoding when the
\* headers are prepared, "None" after an upgrade
raw_print_transfer_encoding(r, http_version, te, upgrade) ==
  IF upgrade = <<>>
  THEN choose_transfer_encoding(r.status_code, te, http_version,
                                r.data_length, FALSE, chunked_threshold(r))
  ELSE "None"

\* a length that is the declared one, whatever the encoding
raw_print_data_length_declared(r, transfer_encoding) == r.data_length

\* raw_print 373-383: the local data_length, -1 for None; an Identity
\* response of unknown length is read to its end to learn the length
raw_print_data_length(r, transfer_encoding) ==
  IF r.data_length >= 0 THEN r.data_length
  ELSE IF transfer_encoding = "Identity" THEN Len(r.reader)
  ELSE -1

\* Response::raw_print: the bytes it writes.  upgrade is <<>> for None and
\* <<token>> for Some(token).
raw_print(r, http_version, te, do_not_send_body, upgrade) ==
  LET h1 == IF HMHas(r.headers, "date") THEN r.headers
            ELSE HMAppend(r.headers, "date", "<now>")
      h2 == IF HMHas(h1, "server") THEN h1
            ELSE HMAppend(h1, "server", "tiny-http (Rust)")
      h3 == IF upgrade = <<>> THEN h2
            ELSE insert_first_header(
                   insert_first_header(h2, "upgrade", upgrade[1]),
                   "connection", "upgrade")
      transfer_encoding == raw_print_transfer_encoding(r, http_version, te,
                                                       upgrade)
      data_length == raw_print_data_length(r, transfer_encoding)
      no_body == do_not_send_body \/ NoBodyStatus(r.status_code)
      h4 == FramingHeaders(h3, transfer_encoding, data_length)
      body == IF no_body THEN <<>>
              ELSE IF transfer_encoding = "Chunked"
                   THEN ChunkedEncode(r.reader)
              ELSE IF transfer_encoding = "Identity"
                   THEN IdentityBody(r.reader, data_length)
              ELSE <<>>
  IN write_message_header(http_version, r.status_code, h4) \o body

\* the inputs of the Response operations
StatusCodes == {100, 199, 200, 204, 304}

\* the bodies a reader yields: x, xy, xyx, ...
Bodies ==
  { [i \in 1..n |-> IF i % 2 = 1 THEN "x" ELSE "y"] : n \in 0..MaxBody }

DataLengths == {-1} \cup 0..MaxBody

Thresholds == {-1, 1}

AppHeaders ==
  { [name |-> n, value |-> "evil"] : n \in ForbiddenHeaders }
  \cup { [name |-> "content-length", value |-> "3"],
         [name |-> "content-length", value |-> "evil"],
         [name |-> "content-type", value |-> "text/a"],
         [name |-> "content-type", value |-> "text/b"],
         [name |-> "x-a", value |-> "v"] }

\* the header maps handed to Response::new
NewHeaders ==
  { <<>>, <<[name |-> "connection", value |-> "evil"]>>,
    <<[name |-> "content-type", value |-> "text/a"]>> }

\* the channels handed to Response::new as additional_headers
Channels == { << <<>> >>, << <<[name |-> "x-a", value |-> "v"]>> >> }

PrintVersions == {HTTP_10, HTTP_11}

TEValues == { <<>>, <<"chunked">>, <<"identity">>, <<"other">> }

UpgradeTokens == { <<>>, <<"websocket">> }

\* the inputs of choose_transfer_encoding alone: the elements of a TE
\* header value, a token with or without a q
TETokens == {"chunked", "Identity", "gzip"}

TEParams == { <<>>, <<";", "q=", "0">>, <<";", "q=", "0.5">> }

TEElements == { <<t>> \o p : t \in TETokens, p \in TEParams }

RECURSIVE TEJoin(_)
TEJoin(n) ==
  IF n = 1 THEN TEElements
  ELSE { l \o <<",", SP>> \o e : l \in TEJoin(n - 1), e \in TEElements }

\* <<>> is a request without TE header
TEHeaders == {<<>>} \cup UNION { TEJoin(n) : n \in 1..MaxTE }

ChooseVersions == {HTTP_09, HTTP_10, HTTP_11, HTTP_2}

ChooseLengths == {-1, 0, 1, DefaultChunkedThreshold - 1,
                  DefaultChunkedThreshold}

\* the streams handed to read_next_line
InputAlphabet == {"a", CR, LF, NONASCII}

Inputs == UNION {[1..n -> InputAlphabet] : n \in 0..MaxInput}

\* the lines handed to parse_request_line
ReqLineAlphabet == {"GET", SP, "/", "HTTP/1.1"}

ReqLines == UNION {[1..n -> ReqLineAlphabet] : n \in 0..MaxReqLine}

\* -------------------------------------------------------------------- state
VARIABLES
  menu,                \* the messages this client may send
  sent,                \* every symbol the client has sent so far (history)
  marks,               \* offsets in `sent` at which a message ends (history)
  inflight,            \* symbols in the socket, not yet pulled by the BufReader
  rbuf,                \* buffer of the BufReader shared by the reader slots
  eof,                 \* the client has shut down its sending side
  source,              \* SequentialReaderBuilder: number of reader slots vended
  rdropped,            \* reader slots that have been dropped
  next_header_source,  \* the reader slot the next header is read from
  sink,                \* SequentialWriterBuilder: number of writer slots vended
  wclosed,             \* writer slots that have been dropped
  no_more_requests,    \* the latch
  pc,                  \* where the connection thread is inside next()
  cur,                 \* request line and headers parsed so far by read()
  pending,             \* the error response next() is about to write
  reqs,                \* the Request objects created so far
  wire,                \* what has been written to the stream, in order
  delivered,           \* what has been read from the stream, in order
  rets,                \* the values returned by next(), in order
  upgraded,            \* upgrade() has returned the raw stream to its caller
  hline,               \* Header::from_str, parse_request_line: the input
  hres,                \* Header::from_str, parse_request_line: the result
  resp,                \* the Response being built
  emitted,             \* raw_print: its arguments and the bytes it wrote
  tls,                 \* RustlsStream: the mutex and the calls in progress
  remote_addr          \* ClientConnection: what peer_addr() gave to new()

vars ==
  <<menu, sent, marks, inflight, rbuf, eof, source, rdropped,
    next_header_source, sink, wclosed, no_more_requests, pc, cur, pending,
    reqs, wire, delivered, rets, upgraded, hline, hres, resp, emitted, tls,
    remote_addr>>

clientVars == <<menu, sent, marks, eof, remote_addr>>
streamVars == <<inflight, rbuf, delivered>>
readerVars == <<source, rdropped, next_header_source>>
writerVars == <<sink, wclosed, wire>>
headerVars == <<hline, hres, resp, emitted, tls>>
connVars ==
  <<clientVars, streamVars, readerVars, writerVars, no_more_requests, pc, cur,
    pending, reqs, rets, upgraded>>

NoCur == [method |-> <<>>, path |-> <<>>, version |-> 0, headers |-> <<>>,
          lines |-> <<>>]

NoPending == [kind |-> "none", status |-> 0, version |-> 0, slot |-> 0,
              held |-> 0]

NoResult == [st |-> "none", field |-> <<>>, value |-> <<>>]

NoResponse == [st |-> "none"]

NoEmitted == [st |-> "none"]

\* ssl/rustls.rs: the holders of the two clones of one RustlsStream (the
\* read half and the write half of a connection) and the operations of
\* RustlsStream
TlsHolders == {"reader", "writer"}

TlsOps == {"read", "write", "flush", "peer_addr", "shutdown"}

\* RustlsContext::accept: the mutex is free and no call is in progress
NoTls == [mutex |-> "free",
          pc |-> [t \in TlsHolders |-> "idle"],
          op |-> [t \in TlsHolders |-> "none"],
          done |-> [t \in TlsHolders |-> 0]]

\* what RefinedTcpStream::peer_addr returns: an address, or an io::Error
PeerAddrs == {"Ok", "Err"}

\* ClientConnection::new: the first header slot is vended at construction
InitSockets ==
  /\ sent = <<>> /\ marks = {} /\ inflight = <<>> /\ rbuf = <<>>
  /\ eof = FALSE
  /\ source = 1 /\ rdropped = {} /\ next_header_source = 0
  /\ sink = 0 /\ wclosed = {}
  /\ no_more_requests = FALSE
  /\ pc = "idle" /\ cur = NoCur /\ pending = NoPending
  /\ reqs = <<>> /\ wire = <<>> /\ delivered = <<>> /\ rets = <<>>
  /\ upgraded = FALSE
  /\ tls = NoTls

\* a connection whose peer_addr() gave the address
InitPipeline == InitSockets /\ remote_addr = "Ok"

InitConnection ==
  /\ InitPipeline
  /\ hline = <<>> /\ hres = NoResult /\ resp = NoResponse
  /\ emitted = NoEmitted

\* ------------------------------------------------------------ slot chains
\* SequentialReader k yields bytes once every earlier slot has been dropped
ReaderLive(k) == \A j \in 0..(k - 1) : j \in rdropped

\* a writer slot that does not wait for the slots before it
WriterLiveNoWait(k) == k = k

\* SequentialWriter k writes once every earlier slot has been dropped
WriterLive(k) == \A j \in 0..(k - 1) : j \in wclosed

\* calls of next() made since it first returned None
AfterNone ==
  IF \E i \in 1..Len(rets) : rets[i] = "None"
  THEN Len(rets) - FirstIndex(rets, "None") ELSE 0

\* the symbols a read took from the stream, tagged with slot and reader
Tagged(n, slot, who) ==
  [i \in 1..n |-> [slot |-> slot, by |-> who, b |-> (rbuf \o inflight)[i]]]

\* ------------------------------------------------------------------ client
MsgLimit == IF menu = ConnectionMsgs THEN MaxConnMsgs ELSE MaxMsgs

ClientSend(m) ==
  /\ ~eof
  /\ Cardinality(marks) < MsgLimit
  /\ sent' = sent \o m
  /\ inflight' = inflight \o m
  /\ marks' = marks \cup {Len(sent) + Len(m)}
  /\ UNCHANGED <<remote_addr, menu, eof, rbuf, delivered, readerVars,
                 writerVars, no_more_requests, pc, cur, pending, reqs, rets,
                 upgraded, headerVars>>

ClientClose ==
  /\ ~eof
  /\ eof' = TRUE
  /\ UNCHANGED <<remote_addr, menu, sent, marks, streamVars, readerVars,
                 writerVars, no_more_requests, pc, cur, pending, reqs, rets,
                 upgraded, headerVars>>

\* ------------------------------------------------- ClientConnection::next
\* next() without the test of the latch
NextProceedsAlways(latch) == latch \in BOOLEAN

\* client.rs 187-189: next() goes on to read only while the latch is clear
NextProceeds(latch) == ~latch

\* the writer of the previous request handed out again
PairedWriterStale(vended) == IF vended = 0 THEN 0 ELSE vended - 1

\* client.rs 143: sink.next() pairs the request with a fresh writer slot
PairedWriter(vended) == vended

\* the two reader slots not swapped
SwapHeaderSourceMissing(header_slot, fresh_slot) ==
  [data_source |-> fresh_slot, next_header_source |-> header_slot]

\* client.rs 146-147: the Request takes the slot the header was read from as
\* its body reader, the fresh slot becomes the next header source
SwapHeaderSource(header_slot, fresh_slot) ==
  [data_source |-> header_slot, next_header_source |-> fresh_slot]

\* client.rs 238: the version check of next()
VersionRejected(version) == version > HTTP_11

\* the latch decision without the arm for "upgrade"
SetsLatchNoUpgrade(headers, version) ==
  LET present == HasHeader(headers, "connection")
      lowercase == IF present
                   THEN LowerSeq(GetHeader(headers, "connection")) ELSE <<>>
  IN IF present /\ StrContains(lowercase, "close") THEN TRUE
     ELSE IF present /\ ~StrContains(lowercase, "keep-alive")
                     /\ version = HTTP_10 THEN TRUE
     ELSE IF ~present /\ version = HTTP_10 THEN TRUE
     ELSE FALSE

\* client.rs 251-268: does this request set no_more_requests
SetsLatch(headers, version) ==
  LET present == HasHeader(headers, "connection")
      lowercase == IF present
                   THEN LowerSeq(GetHeader(headers, "connection")) ELSE <<>>
  IN IF present /\ StrContains(lowercase, "close") THEN TRUE
     ELSE IF present /\ StrContains(lowercase, "upgrade") THEN TRUE
     ELSE IF present /\ ~StrContains(lowercase, "keep-alive")
                     /\ version = HTTP_10 THEN TRUE
     ELSE IF ~present /\ version = HTTP_10 THEN TRUE
     ELSE FALSE

\* client.rs 193-232: status code of the response sent for a ReadError
ErrorStatus(kind) ==
  CASE kind = "WrongRequestLine" -> 400
    [] kind = "WrongHeader" -> 400
    [] kind = "TimedOut" -> 408
    [] kind = "ExpectationFailed" -> 417

\* every error response sent as HTTP/1.1
ErrorVersionAlways11(kind, version) == HTTP_11

\* client.rs 193-232: version of the status line sent for a ReadError
ErrorVersion(kind, version) ==
  IF kind \in {"WrongRequestLine", "TimedOut"} THEN HTTP_11 ELSE version

\* client.rs 192-235: what next() does with Err(e) from read().  `vended`
\* is the number of writer slots vended when the error arm runs.
Fail(kind, version, vended) ==
  IF kind = "Io"
  THEN /\ pc' = "idle"
       /\ rets' = Append(rets, "None")
       /\ sink' = vended
       /\ pending' = NoPending
  ELSE /\ pc' = "respond_error"
       /\ rets' = rets
       /\ sink' = vended + 1
       /\ pending' = [kind |-> kind, status |-> ErrorStatus(kind),
                      version |-> ErrorVersion(kind, version),
                      slot |-> vended, held |-> 0]

NextCall ==
  /\ pc = "idle"
  /\ AfterNone < MaxAfterNone
  /\ IF NextProceeds(no_more_requests)
     THEN pc' = "request_line" /\ rets' = rets
     ELSE pc' = "idle" /\ rets' = Append(rets, "None")
  /\ cur' = NoCur
  /\ UNCHANGED <<clientVars, streamVars, readerVars, writerVars,
                 no_more_requests, pending, reqs, upgraded, headerVars>>

\* client.rs 109-115: the request line
ReadRequestLine ==
  /\ pc = "request_line"
  /\ ReaderLive(next_header_source)
  /\ LET r == read_next_line(rbuf, inflight, eof, <<>>, FALSE)
         n == Len(rbuf) + Len(inflight) - Len(r.buf) - Len(r.sock)
         p == parse_request_line(Trim(r.line))
     IN /\ r.res # "WouldBlock"
        /\ rbuf' = r.buf
        /\ inflight' = r.sock
        /\ delivered' = delivered \o Tagged(n, next_header_source, "header")
        /\ IF r.res # "Ok" THEN Fail("Io", 0, sink) /\ cur' = cur
           ELSE IF ~p.ok THEN Fail("WrongRequestLine", 0, sink) /\ cur' = cur
           ELSE /\ cur' = [method |-> p.method, path |-> p.path,
                           version |-> p.version, headers |-> <<>>,
                           lines |-> <<>>]
                /\ pc' = "headers"
                /\ UNCHANGED <<pending, sink, rets>>
  /\ UNCHANGED <<clientVars, readerVars, wclosed, wire, no_more_requests,
                 reqs, upgraded, headerVars>>

\* the socket read timeout expires while read_next_line waits for bytes
ReadTimeout ==
  /\ pc \in {"request_line", "headers"}
  /\ ReaderLive(next_header_source)
  /\ LET r == read_next_line(rbuf, inflight, eof, <<>>, FALSE)
         n == Len(rbuf) + Len(inflight)
     IN /\ r.res = "WouldBlock"
        /\ rbuf' = <<>>
        /\ inflight' = <<>>
        /\ delivered' = delivered \o Tagged(n, next_header_source, "header")
  /\ Fail("TimedOut", 0, sink)
  /\ UNCHANGED <<clientVars, readerVars, wclosed, wire, no_more_requests,
                 cur, reqs, upgraded, headerVars>>

\* client.rs 155: *self.remote_addr.as_ref().unwrap()
PeerAddrUnwrapPanics(addr) == addr = "Err"

\* client.rs 142-171 and 237-271: the header block is complete
FinishRead ==
  LET writer == PairedWriter(sink)
      sw == SwapHeaderSource(next_header_source, source)
      nr == new_request(cur.headers)
      rq == [version |-> cur.version, headers |-> cur.headers,
             lines |-> cur.lines, rslot |-> sw.data_source,
             wslot |-> writer, framing |-> nr.framing,
             length |-> nr.length, armed |-> nr.armed, st |-> "owned",
             how |-> "none", wphase |-> 0, rdone |-> FALSE,
             bodyRead |-> FALSE, got |-> 0]
  IN /\ source' = source + 1
     /\ next_header_source' = sw.next_header_source
     /\ IF PeerAddrUnwrapPanics(remote_addr)
        THEN \* the unwrap at 155 panics: the writer and the body reader
             \* are dropped by the unwinding, next() does not return
             /\ wclosed' = wclosed \cup {writer}
             /\ rdropped' = rdropped \cup {sw.data_source}
             /\ sink' = sink + 1
             /\ pc' = "panicked"
             /\ pending' = NoPending
             /\ UNCHANGED <<reqs, rets, no_more_requests>>
        ELSE IF ~nr.ok
        THEN \* new_request failed: it drops the writer and the body reader
             /\ wclosed' = wclosed \cup {writer}
             /\ rdropped' = rdropped \cup {sw.data_source}
             /\ Fail("ExpectationFailed", cur.version, sink + 1)
             /\ UNCHANGED <<reqs, no_more_requests>>
        ELSE IF VersionRejected(cur.version)
        THEN /\ reqs' = Append(reqs, [rq EXCEPT !.st = "held"])
             /\ pending' = [kind |-> "UnsupportedVersion", status |-> 505,
                            version |-> HTTP_11, slot |-> sink + 1,
                            held |-> Len(reqs) + 1]
             /\ sink' = sink + 2
             /\ pc' = "respond_error"
             /\ UNCHANGED <<wclosed, rdropped, rets, no_more_requests>>
        ELSE /\ no_more_requests' =
                  (no_more_requests \/ SetsLatch(cur.headers, cur.version))
             /\ reqs' = Append(reqs, rq)
             /\ rets' = Append(rets, "Some")
             /\ pc' = "idle"
             /\ sink' = sink + 1
             /\ pending' = NoPending
             /\ UNCHANGED <<wclosed, rdropped>>

\* client.rs 118-137: one line of the header block
ReadHeaderLine ==
  /\ pc = "headers"
  /\ ReaderLive(next_header_source)
  /\ LET r == read_next_line(rbuf, inflight, eof, <<>>, FALSE)
         n == Len(rbuf) + Len(inflight) - Len(r.buf) - Len(r.sock)
         h == ParseHeaderLine(r.line)
     IN /\ r.res # "WouldBlock"
        /\ rbuf' = r.buf
        /\ inflight' = r.sock
        /\ delivered' = delivered \o Tagged(n, next_header_source, "header")
        /\ IF r.res # "Ok"
           THEN /\ Fail("Io", 0, sink)
                /\ UNCHANGED <<cur, readerVars, wclosed, reqs,
                               no_more_requests>>
           ELSE IF r.line = <<>>
           THEN FinishRead /\ cur' = cur
           ELSE IF ~h.ok
           THEN /\ Fail("WrongHeader", cur.version, sink)
                /\ UNCHANGED <<cur, readerVars, wclosed, reqs,
                               no_more_requests>>
           ELSE /\ cur' = [cur EXCEPT
                             !.headers = Append(@, [name |-> h.name,
                                                    value |-> h.value]),
                             !.lines = Append(@, r.line)]
                /\ UNCHANGED <<pc, pending, sink, rets, readerVars, wclosed,
                               reqs, no_more_requests>>
  /\ UNCHANGED <<clientVars, wire, upgraded, headerVars>>

\* client.rs 193-248: raw_print of the error response on its writer slot;
\* after a 505 the loop continues and the rejected Request is dropped
RespondError ==
  /\ pc = "respond_error"
  /\ WriterLive(pending.slot)
  /\ LET head == [slot |-> pending.slot, status |-> pending.status,
                  version |-> pending.version, part |-> "head",
                  by |-> "next"]
     IN wire' = IF pending.status = 505
                THEN wire \o <<head, [head EXCEPT !.part = "body"]>>
                ELSE Append(wire, head)
  /\ wclosed' = wclosed \cup {pending.slot}
  /\ IF pending.status = 505
     THEN /\ reqs' = [reqs EXCEPT ![pending.held].st = "closing",
                                  ![pending.held].how = "drop"]
          /\ pc' = "request_line"
          /\ rets' = rets
     ELSE /\ reqs' = reqs
          /\ pc' = "idle"
          /\ rets' = Append(rets, "None")
  /\ pending' = NoPending
  /\ UNCHANGED <<clientVars, streamVars, readerVars, sink, no_more_requests,
                 cur, upgraded, headerVars>>

\* --------------------------------------------- request.rs (the application)
Available == rbuf \o inflight

\* stream symbols left of the body of rq, of which rq.got have been taken;
\* -1 when the reader has to wait for more
RemainingBody(rq) ==
  IF rq.bodyRead THEN 0
  ELSE BodyExtent(rq.framing, rq.length - rq.got, Available, eof)

\* how the application reads a body: to its end, or one byte at a time
ReadModes == IF menu = ExpectMsgs THEN BOOLEAN ELSE {TRUE}

\* status code of the response a Request ends with
FinalStatus(how) ==
  CASE how = "respond" -> 200
    [] how = "upgrade" -> 101
    [] how = "drop" -> 200

\* a body reader that never sends the interim response
InterimDueNever(rq) == rq.armed /\ ~rq.armed

\* the interim response is due at the first read of an armed body
InterimDue(rq) == rq.armed

\* as_reader() and a read of the body, to its end or of one byte.  The first
\* read of a body armed by Expect: 100-continue writes the interim response
\* on the writer slot before it waits for any byte of the body.
AppReadBody(i, to_end) ==
  LET rq == reqs[i]
      due == InterimDue(rq)
      n == IF due THEN 0
           ELSE IF to_end THEN RemainingBody(rq)
           ELSE IF Available = <<>> THEN -1 ELSE 1
      c == Consume(rbuf, inflight, n)
  IN /\ rq.st = "owned"
     /\ ~rq.bodyRead
     /\ to_end \/ (rq.framing = "length" /\ rq.length - rq.got >= 2)
     /\ ReaderLive(rq.rslot)
     /\ due => WriterLive(rq.wslot)
     /\ n >= 0
     /\ wire' = IF due
                THEN Append(wire, [slot |-> rq.wslot, status |-> 100,
                                   version |-> HTTP_11, part |-> "head",
                                   by |-> "as_reader"])
                ELSE wire
     /\ rbuf' = c.buf
     /\ inflight' = c.sock
     /\ delivered' = delivered \o Tagged(n, rq.rslot, "body")
     /\ reqs' = [reqs EXCEPT ![i].bodyRead = ~due /\ to_end,
                             ![i].got = @ + n,
                             ![i].armed = FALSE]
     /\ UNCHANGED <<clientVars, readerVars, sink, wclosed, no_more_requests,
                    pc, cur, pending, rets, upgraded, headerVars>>

\* Request::respond, Request::upgrade and Drop for Request consume the
\* Request; the response and the rest of the body follow in SendHead,
\* SendBody and ReleaseReader
Finish(i, how) ==
  /\ reqs[i].st = "owned"
  /\ reqs' = [reqs EXCEPT ![i].st = "closing", ![i].how = how]
  /\ UNCHANGED <<clientVars, streamVars, readerVars, writerVars,
                 no_more_requests, pc, cur, pending, rets, upgraded,
                 headerVars>>

Respond(i) == Finish(i, "respond")

Upgrade(i) == Finish(i, "upgrade")

DropRequest(i) == Finish(i, "drop")

Closed(rq) == IF rq.wphase = 2 /\ rq.rdone THEN "done" ELSE "closing"

\* raw_print on the paired writer slot: status line and header block.  A
\* response of respond() has a body, which SendBody writes; the 101 of
\* upgrade() and the default response of drop have none and close the slot.
SendHead(i) ==
  LET rq == reqs[i]
      last == rq.how # "respond"
  IN /\ rq.st = "closing"
     /\ rq.wphase = 0
     /\ WriterLive(rq.wslot)
     /\ wire' = Append(wire, [slot |-> rq.wslot,
                              status |-> FinalStatus(rq.how),
                              version |-> rq.version, part |-> "head",
                              by |-> rq.how])
     /\ wclosed' = IF last THEN wclosed \cup {rq.wslot} ELSE wclosed
     /\ upgraded' = (upgraded \/ rq.how = "upgrade")
     /\ reqs' = [reqs EXCEPT
                   ![i] = LET q == [rq EXCEPT
                                      !.wphase = IF last THEN 2 ELSE 1]
                          IN [q EXCEPT !.st = Closed(q)]]
     /\ UNCHANGED <<clientVars, streamVars, readerVars, sink,
                    no_more_requests, pc, cur, pending, rets, headerVars>>

\* raw_print: the body, after which the writer slot is dropped
SendBody(i) ==
  LET rq == reqs[i]
  IN /\ rq.st = "closing"
     /\ rq.wphase = 1
     /\ WriterLive(rq.wslot)
     /\ wire' = Append(wire, [slot |-> rq.wslot,
                              status |-> FinalStatus(rq.how),
                              version |-> rq.version, part |-> "body",
                              by |-> rq.how])
     /\ wclosed' = wclosed \cup {rq.wslot}
     /\ reqs' = [reqs EXCEPT
                   ![i] = LET q == [rq EXCEPT !.wphase = 2]
                          IN [q EXCEPT !.st = Closed(q)]]
     /\ UNCHANGED <<clientVars, streamVars, readerVars, sink,
                    no_more_requests, pc, cur, pending, rets, upgraded,
                    headerVars>>

\* the body reader is dropped: what is left of the body is discarded and the
\* reader slot is released
ReleaseReader(i) ==
  LET rq == reqs[i]
      n == RemainingBody(rq)
      c == Consume(rbuf, inflight, n)
  IN /\ rq.st = "closing"
     /\ ~rq.rdone
     /\ ReaderLive(rq.rslot)
     /\ n >= 0
     /\ rbuf' = c.buf
     /\ inflight' = c.sock
     /\ delivered' = delivered \o Tagged(n, rq.rslot, "body")
     /\ rdropped' = rdropped \cup {rq.rslot}
     /\ reqs' = [reqs EXCEPT
                   ![i] = LET q == [rq EXCEPT !.rdone = TRUE,
                                              !.bodyRead = TRUE,
                                              !.got = @ + n]
                          IN [q EXCEPT !.st = Closed(q)]]
     /\ UNCHANGED <<clientVars, source, next_header_source, writerVars,
                    no_more_requests, pc, cur, pending, rets, upgraded,
                    headerVars>>

\* ------------------------------------------------------------ specification
Next ==
  \/ \E m \in menu : ClientSend(m)
  \/ ClientClose
  \/ NextCall
  \/ ReadRequestLine
  \/ ReadHeaderLine
  \/ ReadTimeout
  \/ RespondError
  \/ \E i \in 1..Len(reqs) : \E to_end \in ReadModes : AppReadBody(i, to_end)
  \/ \E i \in 1..Len(reqs) : Respond(i)
  \/ \E i \in 1..Len(reqs) : Upgrade(i)
  \/ \E i \in 1..Len(reqs) : DropRequest(i)
  \/ \E i \in 1..Len(reqs) : SendHead(i)
  \/ \E i \in 1..Len(reqs) : SendBody(i)
  \/ \E i \in 1..Len(reqs) : ReleaseReader(i)

\* pipelined well-formed requests
Init == InitConnection /\ menu = PipelineMsgs

Spec == Init /\ [][Next]_vars

\* every HTTP version
InitVersion == InitConnection /\ menu = VersionMsgs

SpecVersion == InitVersion /\ [][Next]_vars

\* every HTTP version, with the connection thread scheduled: a call of
\* next() is made when one is due, and a response that next() has to write
\* is written once its writer slot lets it
SpecVersionFair ==
  InitVersion /\ [][Next]_vars /\ WF_vars(NextCall) /\ WF_vars(RespondError)

\* malformed request lines and header lines
InitParse == InitConnection /\ menu = ParseMsgs

SpecParse == InitParse /\ [][Next]_vars

\* the 100-continue handshake
InitExpect == InitConnection /\ menu = ExpectMsgs

SpecExpect == InitExpect /\ [][Next]_vars

\* the Connection header
InitConn == InitConnection /\ menu = ConnectionMsgs

SpecConn == InitConn /\ [][Next]_vars

\* the same input as SpecParse on a connection whose peer_addr() gave the
\* address or an error
InitPeer ==
  /\ InitSockets /\ remote_addr \in PeerAddrs
  /\ hline = <<>> /\ hres = NoResult /\ resp = NoResponse
  /\ emitted = NoEmitted
  /\ menu = ParseMsgs

SpecPeer == InitPeer /\ [][Next]_vars

\* ------------------------------------------------- Header::from_str alone
ParseHeader ==
  /\ hres.st = "none"
  /\ hres' = Header_from_str(hline)
  /\ UNCHANGED <<hline, resp, emitted, connVars, tls>>

InitHeader ==
  /\ InitPipeline /\ menu = {}
  /\ hline \in Lines /\ hres = NoResult
  /\ resp = NoResponse /\ emitted = NoEmitted

\* Display of the Header that the parse gave
FormatHeader ==
  /\ hres.st = "Ok" /\ emitted.st = "none"
  /\ emitted' = [st |-> "shown", text |-> Header_fmt(hres)]
  /\ UNCHANGED <<hline, hres, resp, connVars, tls>>

NextHeader == ParseHeader \/ FormatHeader

SpecHeader == InitHeader /\ [][NextHeader]_vars

\* ------------------------------------------------ parse_request_line alone
ParseLine ==
  /\ hres.st = "none"
  /\ hres' = LET p == parse_request_line(hline)
             IN [st |-> IF p.ok THEN "Ok" ELSE "Err", method |-> p.method,
                 path |-> p.path, version |-> p.version]
  /\ UNCHANGED <<hline, resp, emitted, connVars, tls>>

InitLine ==
  /\ InitPipeline /\ menu = {}
  /\ hline \in ReqLines /\ hres = NoResult
  /\ resp = NoResponse /\ emitted = NoEmitted

NextLine == ParseLine

SpecLine == InitLine /\ [][NextLine]_vars

\* ------------------------------------------------------- Response alone
\* Response::add_header and Response::with_header; resp.added counts the
\* calls and resp.ignored those with one of the ignored names
AddHeader(name, value) ==
  /\ resp.st = "built"
  /\ resp.added < MaxHeaders
  /\ resp' = [add_header(resp, name, value) EXCEPT
                !.added = @ + 1,
                !.ignored = IF name \in ForbiddenHeaders THEN @ + 1 ELSE @]
  /\ UNCHANGED <<hline, hres, emitted, connVars, tls>>

\* Response::raw_print into a writer that takes every byte
RawPrint(http_version, te, do_not_send_body, upgrade) ==
  /\ resp.st = "built"
  /\ resp' = [resp EXCEPT !.st = "sent"]
  /\ emitted' = [st |-> "sent", http_version |-> http_version, te |-> te,
                  do_not_send_body |-> do_not_send_body,
                  upgrade |-> upgrade,
                  bytes |-> raw_print(resp, http_version, te,
                                      do_not_send_body, upgrade)]
  /\ UNCHANGED <<hline, hres, connVars, tls>>

InitResponse ==
  /\ InitPipeline /\ menu = {}
  /\ hline = <<>> /\ hres = NoResult
  /\ \E status_code \in StatusCodes, headers \in NewHeaders,
        data \in Bodies, data_length \in DataLengths,
        threshold \in Thresholds :
       resp = [Response_new(status_code, headers, data, data_length, <<>>)
                 @@ [st |-> "built", added |-> 0, channel |-> FALSE,
                     ignored |-> IF headers # <<>>
                                    /\ headers[1].name \in ForbiddenHeaders
                                 THEN 1 ELSE 0]
                 EXCEPT !.chunked_threshold = threshold]
  /\ emitted = NoEmitted

NextResponse ==
  \/ \E h \in AppHeaders : AddHeader(h.name, h.value)
  \/ \E http_version \in PrintVersions, te \in TEValues,
        do_not_send_body \in BOOLEAN, upgrade \in UpgradeTokens :
       RawPrint(http_version, te, do_not_send_body, upgrade)

SpecResponse == InitResponse /\ [][NextResponse]_vars

\* the same, for a Response built with an additional_headers channel;
\* resp.channel remembers that it was
InitChannel ==
  /\ InitPipeline /\ menu = {}
  /\ hline = <<>> /\ hres = NoResult
  /\ \E status_code \in StatusCodes, data \in Bodies,
        data_length \in DataLengths, threshold \in Thresholds,
        additional_headers \in Channels :
       resp = [Response_new(status_code, <<>>, data, data_length,
                            additional_headers)
                 @@ [st |-> "built", added |-> 0, channel |-> TRUE,
                     ignored |-> 0]
                 EXCEPT !.chunked_threshold = threshold]
  /\ emitted = NoEmitted

SpecChannel == InitChannel /\ [][NextResponse]_vars

\* ------------------------------------------- choose_transfer_encoding alone
\* the call raw_print makes at 342-349, for a response whose threshold is
\* emitted.chunked_threshold (-1: never set)
ChooseEncoding ==
  /\ emitted.st = "args"
  /\ emitted' = [emitted EXCEPT
                   !.st = "chosen",
                   !.result = choose_transfer_encoding(
                                emitted.status_code, emitted.te,
                                emitted.http_version, emitted.entity_length,
                                emitted.has_additional_headers,
                                chunked_threshold(emitted))]
  /\ UNCHANGED <<hline, hres, resp, connVars, tls>>

InitChoose ==
  /\ InitPipeline /\ menu = {}
  /\ hline = <<>> /\ hres = NoResult /\ resp = NoResponse
  /\ \E status_code \in StatusCodes, te \in TEHeaders,
        http_version \in ChooseVersions, entity_length \in ChooseLengths,
        has_additional_headers \in BOOLEAN, threshold \in Thresholds :
       emitted = [st |-> "args", status_code |-> status_code, te |-> te,
                  http_version |-> http_version,
                  entity_length |-> entity_length,
                  has_additional_headers |-> has_additional_headers,
                  chunked_threshold |-> threshold, result |-> "none"]

NextChoose == ChooseEncoding

SpecChoose == InitChoose /\ [][NextChoose]_vars

\* -------------------------------------------------- read_next_line alone
\* one call on a stream whose bytes are all in the socket and whose sender
\* has closed; hres.rest is what the next read starts with
ReadLine ==
  /\ hres.st = "none"
  /\ hres' = LET r == read_next_line(<<>>, hline, TRUE, <<>>, FALSE)
             IN [st |-> r.res, line |-> r.line, rest |-> r.buf \o r.sock]
  /\ UNCHANGED <<hline, resp, emitted, connVars, tls>>

InitReadLine ==
  /\ InitPipeline /\ menu = {}
  /\ hline \in Inputs /\ hres = NoResult
  /\ resp = NoResponse /\ emitted = NoEmitted

NextReadLine == ReadLine

SpecReadLine == InitReadLine /\ [][NextReadLine]_vars

\* ---------------------------------------------------- RustlsStream alone
\* operations that only look at the socket and take no lock
RustlsLocksIO(op) == op \in {"read", "write", "flush"}

\* the operations whose body starts with self.0.lock(): all five
RustlsLocks(op) == op \in {"read", "write", "flush", "peer_addr", "shutdown"}

\* a holder of a clone calls an operation: with a lock, it first waits for
\* the mutex
TlsCall(t, op) ==
  /\ tls.pc[t] = "idle" /\ tls.done[t] < MaxTlsOps
  /\ tls' = [tls EXCEPT !.op[t] = op,
                         !.pc[t] = IF RustlsLocks(op) THEN "lock"
                                   ELSE "inside"]
  /\ UNCHANGED <<hline, hres, resp, emitted, connVars>>

\* Mutex::lock returns the guard
TlsLock(t) ==
  /\ tls.pc[t] = "lock" /\ tls.mutex = "free"
  /\ tls' = [tls EXCEPT !.mutex = t, !.pc[t] = "inside"]
  /\ UNCHANGED <<hline, hres, resp, emitted, connVars>>

\* the operation on the session or its socket returns; the guard is a
\* temporary of the expression and is dropped with it
TlsReturn(t) ==
  /\ tls.pc[t] = "inside"
  /\ tls' = [tls EXCEPT !.mutex = IF @ = t THEN "free" ELSE @,
                         !.pc[t] = "idle", !.op[t] = "none",
                         !.done[t] = @ + 1]
  /\ UNCHANGED <<hline, hres, resp, emitted, connVars>>

InitTls ==
  /\ InitPipeline /\ menu = {}
  /\ hline = <<>> /\ hres = NoResult /\ resp = NoResponse
  /\ emitted = NoEmitted

NextTls ==
  \/ \E t \in TlsHolders, op \in TlsOps : TlsCall(t, op)
  \/ \E t \in TlsHolders : TlsLock(t)
  \/ \E t \in TlsHolders : TlsReturn(t)

SpecTls == InitTls /\ [][NextTls]_vars

\* ------------------------------------- RustlsStream over a blocking socket
\* the peer sends one more record: the socket has bytes to read
TlsPeerSend ==
  /\ ~eof /\ Len(inflight) < MaxTlsBytes
  /\ inflight' = Append(inflight, "a")
  /\ UNCHANGED <<remote_addr, menu, sent, marks, rbuf, delivered, eof,
                 readerVars, writerVars, no_more_requests, pc, cur, pending,
                 reqs, rets, upgraded, headerVars>>

\* the peer closes its side: a read of the socket returns 0
TlsPeerClose ==
  /\ ~eof
  /\ eof' = TRUE
  /\ UNCHANGED <<remote_addr, menu, sent, marks, inflight, rbuf, delivered,
                 readerVars, writerVars, no_more_requests, pc, cur, pending,
                 reqs, rets, upgraded, headerVars>>

\* StreamOwned::read under the guard: the read of the socket returns when
\* the socket has bytes or is at its end, and not before; the guard is dropped
\* when read returns
TlsReadReturn(t) ==
  /\ tls.pc[t] = "inside" /\ tls.op[t] = "read"
  /\ inflight # <<>> \/ eof
  /\ inflight' = <<>>
  /\ tls' = [tls EXCEPT !.mutex = IF @ = t THEN "free" ELSE @,
                         !.pc[t] = "idle", !.op[t] = "none",
                         !.done[t] = @ + 1]
  /\ UNCHANGED <<remote_addr, menu, sent, marks, rbuf, delivered, eof,
                 readerVars, writerVars, no_more_requests, pc, cur, pending,
                 reqs, rets, upgraded, hline, hres, resp, emitted>>

\* write, flush, peer_addr and shutdown do not wait for the peer
TlsOpReturn(t) ==
  /\ tls.op[t] # "read"
  /\ TlsReturn(t)

NextTlsBlocking ==
  \/ \E t \in TlsHolders, op \in TlsOps : TlsCall(t, op)
  \/ \E t \in TlsHolders : TlsLock(t)
  \/ \E t \in TlsHolders : TlsReadReturn(t)
  \/ \E t \in TlsHolders : TlsOpReturn(t)
  \/ TlsPeerSend
  \/ TlsPeerClose

\* every call that can return does, and a caller waiting for the mutex gets
\* it if it is free again and again; what the holders call and what the
\* peer sends is up to them
TlsFairness ==
  \A t \in TlsHolders :
    /\ SF_vars(TlsLock(t))
    /\ WF_vars(TlsReadReturn(t))
    /\ WF_vars(TlsOpReturn(t))

SpecTlsBlocking == InitTls /\ [][NextTlsBlocking]_vars /\ TlsFairness

\* ---------------------------------------------- RustlsContext::from_pem
\* the sections of a PEM file: a certificate, a PKCS#8 key, a PKCS#8 key
\* of a kind the signer cannot load, a PKCS#1 RSA key, a section of another
\* kind, and a section that does not decode
PemSections == {"CERT", "PKCS8", "PKCS8-unusable", "RSA", "CRL", "BAD"}

PemFiles == UNION { [1..n -> PemSections] : n \in 0..MaxPem }

\* rustls_pemfile::certs, pkcs8_private_keys, rsa_private_keys collected
\* into a Result: the sections of the wanted kinds in file order, or Err
\* when a section of the file does not decode
PemItems(file, kinds) ==
  IF \E i \in 1..Len(file) : file[i] = "BAD" THEN [ok |-> FALSE, v |-> <<>>]
  ELSE [ok |-> TRUE, v |-> SelectSeq(file, LAMBDA x : x \in kinds)]

\* ConfigBuilder::with_single_cert loads the key
KeyUsable(key) == key \in {"PKCS8", "RSA"}

\* rustls.rs 94: rsa_keys[0], which panics on an empty Vec
FirstRsaKey(rsa_keys) ==
  IF rsa_keys = <<>> THEN "panic" ELSE rsa_keys[1]

\* RustlsContext::from_pem: Ok with the chain and the key of the
\* configuration, Err, or a panic
from_pem(certificates, private_key) ==
  LET certificate_chain == PemItems(certificates, {"CERT"})
      pkcs8_keys == PemItems(private_key, {"PKCS8", "PKCS8-unusable"})
      rsa_keys == PemItems(private_key, {"RSA"})
      key == IF pkcs8_keys.v # <<>> THEN pkcs8_keys.v[1]
             ELSE FirstRsaKey(rsa_keys.v)
  IN IF ~certificate_chain.ok \/ certificate_chain.v = <<>>
        \/ ~pkcs8_keys.ok
     THEN [st |-> "Err", chain |-> <<>>, key |-> "none"]
     ELSE IF pkcs8_keys.v = <<>> /\ ~rsa_keys.ok
     THEN [st |-> "Err", chain |-> <<>>, key |-> "none"]
     ELSE IF key = "panic"
     THEN [st |-> "panic", chain |-> <<>>, key |-> "none"]
     ELSE IF ~KeyUsable(key)
     THEN [st |-> "Err", chain |-> <<>>, key |-> "none"]
     ELSE [st |-> "Ok", chain |-> certificate_chain.v, key |-> key]

FromPem ==
  /\ hres.st = "none"
  /\ hres' = from_pem(hline.certificates, hline.private_key)
  /\ UNCHANGED <<hline, resp, emitted, connVars, tls>>

InitPem ==
  /\ InitPipeline /\ menu = {}
  /\ \E certificates \in PemFiles, private_key \in PemFiles :
       hline = [certificates |-> certificates, private_key |-> private_key]
  /\ hres = NoResult /\ resp = NoResponse /\ emitted = NoEmitted

NextPem == FromPem

SpecPem == InitPem /\ [][NextPem]_vars

\* =================================================================== claims
\* this step is a read of the connection thread from its header slot
HeaderRead ==
  /\ Len(delivered') > Len(delivered)
  /\ delivered'[Len(delivered')].by = "header"

\* final (non-interim) status lines written on writer slot k
FinalHeads(k) ==
  {j \in 1..Len(wire) :
     wire[j].slot = k /\ wire[j].part = "head" /\ wire[j].status # 100}

BodyReads(k) ==
  {j \in 1..Len(delivered) : delivered[j].slot = k /\ delivered[j].by = "body"}

\* C1: the stream carries the responses in the order of their writer slots,
\* each one contiguous; the slots are vended in the order the requests are
\* parsed; and nothing is on the stream for a slot unless every earlier slot
\* has been closed.
T_C1 ==
  /\ \A j \in 1..(Len(wire) - 1) : wire[j].slot <= wire[j + 1].slot
  /\ \A i, j \in 1..Len(reqs) : i < j => reqs[i].wslot < reqs[j].wslot
  /\ \A j \in 1..Len(wire) : \A k \in 0..(wire[j].slot - 1) : k \in wclosed

\* the second request was answered first and waits while the first response
\* is half written
W_C1 ==
  /\ Len(reqs) >= 2
  /\ reqs[1].st = "closing" /\ reqs[1].wphase = 1
  /\ reqs[2].st = "closing" /\ reqs[2].wphase = 0

\* C2: the connection thread reads header bytes only while the body reader
\* of every request created so far has been released; the symbols read
\* through the slots, followed by what is buffered and what is in the
\* socket, are exactly what the client sent, and the slots take them in slot
\* order.
T_C2 ==
  /\ [][HeaderRead => \A i \in 1..Len(reqs) : reqs[i].rdone]_vars
  /\ [](/\ [j \in 1..Len(delivered) |-> delivered[j].b] \o rbuf \o inflight
             = sent
        /\ \A j \in 1..(Len(delivered) - 1) :
             delivered[j].slot <= delivered[j + 1].slot)

\* next() waits on the header slot of the second request while the first
\* request still holds its unread two-byte body and the buffer already holds
\* symbols of the second request behind that body
W_C2 ==
  /\ Len(reqs) = 1
  /\ reqs[1].length = 2
  /\ ~reqs[1].bodyRead /\ ~reqs[1].rdone
  /\ pc = "request_line"
  /\ Len(rbuf) > 2

\* C3: a request handed to the application has exactly one final response on
\* its writer slot once it is done, never two, and its slot is closed exactly
\* when that response is complete; a dropped request is answered 200.
T_C3 ==
  \A i \in 1..Len(reqs) :
    LET rq == reqs[i]
    IN rq.st # "held" =>
         /\ Cardinality(FinalHeads(rq.wslot)) <= 1
         /\ rq.st = "done" => Cardinality(FinalHeads(rq.wslot)) = 1
         /\ rq.wslot \in wclosed <=> rq.wphase = 2
         /\ rq.wslot \in wclosed => Cardinality(FinalHeads(rq.wslot)) = 1
         /\ \A j \in FinalHeads(rq.wslot) :
              /\ wire[j].by = rq.how
              /\ wire[j].by \in {"respond", "upgrade", "drop"}
              /\ wire[j].by = "drop" => wire[j].status = 200

\* a dropped request and a later, answered one are both done
W_C3 ==
  /\ Len(reqs) >= 2
  /\ reqs[1].st = "done" /\ reqs[1].how = "drop"
  /\ reqs[2].st = "done" /\ reqs[2].how = "respond"

HasBoth(rq) ==
  /\ HasHeader(rq.headers, "transfer-encoding")
  /\ HasHeader(rq.headers, "content-length")

\* C4: a request with both Transfer-Encoding: chunked and Content-Length is
\* framed by the chunked decoder: once its body reader is released it has
\* taken the whole chunked body, not Content-Length symbols, so that the next
\* header starts at the end of the message.
T_C4 ==
  \A i \in 1..Len(reqs) :
    HasBoth(reqs[i]) =>
      /\ reqs[i].framing = "chunked"
      /\ reqs[i].rdone =>
           /\ Cardinality(BodyReads(reqs[i].rslot)) = Len(ChunkedBody)
           /\ \E m \in marks :
                m = Cardinality({j \in 1..Len(delivered) :
                                   delivered[j].slot <= reqs[i].rslot})

\* a request with both headers was released and the next request parsed
W_C4 ==
  /\ Len(reqs) >= 2
  /\ HasBoth(reqs[1]) /\ reqs[1].rdone
  /\ reqs[2].st = "owned"

\* no white space before the field name, in it, or before the colon
StrictLine(line) ==
  \A i \in 1..Len(line) :
    IsWhitespace(line[i]) => \E j \in 1..(i - 1) : line[j] = COLON

\* C5: no request made from a header block with white space before or inside
\* a field name or before the colon is ever created.
CE_C5 ==
  \A i \in 1..Len(reqs) :
    \A j \in 1..Len(reqs[i].lines) : StrictLine(reqs[i].lines[j])

HasColon(l) == \E i \in 1..Len(l) : l[i] = COLON

BeforeColon(l) == SubSeq(l, 1, FirstIndex(l, COLON) - 1)

AfterColon(l) == SubSeq(l, FirstIndex(l, COLON) + 1, Len(l))

NoWhitespace(l) == \A i \in 1..Len(l) : ~IsWhitespace(l[i])

\* C6 as stated: a line is accepted exactly when it has a colon and the text
\* before the first colon is ASCII without white space.
CE_C6 ==
  hres.st # "none" =>
    (hres.st = "Ok" <=>
       /\ HasColon(hline)
       /\ IsAscii(BeforeColon(hline))
       /\ NoWhitespace(BeforeColon(hline)))

\* C6, amended: a line is accepted exactly when it has a colon, the text
\* before the first colon is ASCII without white space, and the text after
\* the first colon is ASCII once trimmed; the field is the former and the
\* value the latter, later colons included.
T_C6 ==
  hres.st # "none" =>
    /\ hres.st = "Ok" <=>
         /\ HasColon(hline)
         /\ IsAscii(BeforeColon(hline))
         /\ NoWhitespace(BeforeColon(hline))
         /\ IsAscii(Trim(AfterColon(hline)))
    /\ hres.st = "Ok" =>
         /\ hres.field = BeforeColon(hline)
         /\ hres.value = Trim(AfterColon(hline))

\* an accepted line whose value keeps a second colon and loses its padding
W_C6 ==
  /\ hres.st = "Ok"
  /\ hline = <<"a", COLON, SP, COLON>>
  /\ hres.value = <<COLON>>

ConnectionValue(rq) ==
  IF HasHeader(rq.headers, "connection")
  THEN LowerSeq(GetHeader(rq.headers, "connection")) ELSE <<>>

\* C7: the latch is set exactly when a request handed out has a Connection
\* value containing close or upgrade (case-insensitive substring), or is
\* HTTP/1.0 without a Connection value containing keep-alive.
T_C7 ==
  no_more_requests <=>
    \E i \in 1..Len(reqs) :
      /\ reqs[i].st # "held"
      /\ \/ StrContains(ConnectionValue(reqs[i]), "close")
         \/ StrContains(ConnectionValue(reqs[i]), "upgrade")
         \/ /\ reqs[i].version = HTTP_10
            /\ ~StrContains(ConnectionValue(reqs[i]), "keep-alive")

\* an HTTP/1.0 request with Keep-Alive was handed out and the latch is clear
W_C7 ==
  /\ Len(reqs) >= 1
  /\ reqs[1].version = HTTP_10
  /\ StrContains(ConnectionValue(reqs[1]), "keep-alive")
  /\ ~no_more_requests

\* C8: once the latch is set it stays set, and the connection thread reads
\* nothing more, vends no writer slot and returns only None.
T_C8 ==
  [][no_more_requests =>
       /\ no_more_requests'
       /\ ~HeaderRead
       /\ sink' = sink
       /\ pc' = "idle"
       /\ rets' # rets => rets' = Append(rets, "None")]_vars

\* next() returned None on the latch while unread bytes were at hand
W_C8 ==
  /\ no_more_requests
  /\ rets # <<>> /\ rets[Len(rets)] = "None"
  /\ Available # <<>>

\* C9: once upgrade() has handed over the stream the connection is latched.
CE_C9 == upgraded => no_more_requests

\* C10: only requests of version 1.0 or 1.1 are handed to the application.
CE_C10 ==
  \A i \in 1..Len(reqs) :
    reqs[i].st # "held" => reqs[i].version \in {HTTP_10, HTTP_11}

\* a 505 status line is on the stream
Sent505 == \E j \in 1..Len(wire) : wire[j].status = 505

LastIsNone == rets # <<>> /\ rets[Len(rets)] = "None"

ReadStep == pc \in {"request_line", "headers"} /\ (pc' # pc \/ cur' # cur)

\* the error responses of next() written so far
ErrorHeads == {j \in 1..Len(wire) : wire[j].by = "next" /\ wire[j].status # 505}

\* C12: a read failure is answered by exactly one response on a writer slot
\* vended for it, after which next() returns None: 400 as HTTP/1.1 for a
\* malformed request line, 400 with the version of the request line for a
\* malformed header, 417 with that version for an unknown Expect, 408 as
\* HTTP/1.1 for a timeout; any other I/O error (end of stream before CRLF, a
\* line that is not ASCII) writes nothing, vends nothing and returns None.
T_C12 ==
  /\ [][ReadStep /\ pending'.kind \notin {"none", "UnsupportedVersion"} =>
         /\ pc' = "respond_error"
         /\ pending'.slot = sink' - 1
         /\ pending'.slot >= sink
         /\ \A j \in 1..Len(wire) : wire[j].slot # pending'.slot
         /\ rets' = rets /\ wire' = wire
         /\ pending'.kind = "WrongRequestLine" =>
              /\ pc = "request_line"
              /\ pending'.status = 400 /\ pending'.version = HTTP_11
         /\ pending'.kind = "WrongHeader" =>
              /\ pc = "headers"
              /\ pending'.status = 400 /\ pending'.version = cur.version
         /\ pending'.kind = "ExpectationFailed" =>
              /\ pc = "headers" /\ HasHeader(cur.headers, "expect")
              /\ pending'.status = 417 /\ pending'.version = cur.version
         /\ pending'.kind = "TimedOut" =>
              /\ pending'.status = 408 /\ pending'.version = HTTP_11]_vars
  /\ [][pc = "respond_error" /\ pending.status # 505 /\ pc' # pc =>
         /\ wire' = Append(wire, [slot |-> pending.slot,
                                  status |-> pending.status,
                                  version |-> pending.version,
                                  part |-> "head", by |-> "next"])
         /\ pending.slot \in wclosed'
         /\ sink' = sink
         /\ pc' = "idle"
         /\ rets' = Append(rets, "None")]_vars
  /\ [][/\ ReadStep
         /\ read_next_line(rbuf, inflight, eof, <<>>, FALSE).res
              \in {"ConnectionAborted", "InvalidInput"} =>
         /\ wire' = wire /\ sink' = sink /\ wclosed' = wclosed
         /\ pc' = "idle"
         /\ rets' = Append(rets, "None")]_vars
  /\ [](\A j \in ErrorHeads :
          /\ \A k \in 1..Len(wire) : wire[k].slot = wire[j].slot => k = j
          /\ wire[j].status \in {400, 408, 417}
          /\ wire[j].status = 408 => wire[j].version = HTTP_11)

\* an unknown Expect was answered 417, and on the next call a malformed
\* header of an HTTP/1.0 request was answered 400 as HTTP/1.0
W_C12 ==
  /\ \E j \in ErrorHeads : wire[j].status = 417
  /\ \E j \in ErrorHeads : wire[j].status = 400 /\ wire[j].version = HTTP_10
  /\ pc = "idle" /\ rets = <<"None", "None">>

\* C13: once next() has returned None, every later call returns None.
CE_C13 ==
  \A i \in 1..(Len(rets) - 1) : rets[i] = "None" => rets[i + 1] = "None"

\* C14: parse_request_line succeeds only on a line of exactly three tokens
\* separated by single spaces: a method, a request target and a known
\* version.
CE_C14 ==
  hres.st = "Ok" =>
    LET parts == Split(hline, SP)
    IN /\ Len(parts) = 3
       /\ MethodOk(parts[1])
       /\ UriOk(parts[2])
       /\ parse_http_version(parts[3]) # 0

\* the request came with Expect: 100-continue
Expects100(rq) ==
  /\ HasHeader(rq.headers, "expect")
  /\ LowerSeq(GetHeader(rq.headers, "expect")) = <<"100-continue">>

\* the interim responses written on writer slot k
Hundreds(k) == {j \in 1..Len(wire) : wire[j].slot = k /\ wire[j].status = 100}

\* C15: the interim 100 Continue of a request with Expect: 100-continue is
\* on its writer slot exactly once when the application has started to read
\* the body and not at all before; it is written by that first read, ahead
\* of the final response, as HTTP/1.1, before the read takes a byte of the
\* body; a read after the first writes nothing; nothing else writes it.
T_C15 ==
  /\ [](\A i \in 1..Len(reqs) :
          LET rq == reqs[i]
          IN /\ Cardinality(Hundreds(rq.wslot)) =
                  IF Expects100(rq) /\ ~rq.armed THEN 1 ELSE 0
             /\ rq.armed => Expects100(rq)
             /\ rq.armed /\ rq.st = "owned" => rq.got = 0
             /\ \A j \in Hundreds(rq.wslot) :
                  /\ wire[j].version = HTTP_11
                  /\ \A k \in FinalHeads(rq.wslot) : j < k)
  /\ [][\A i \in 1..Len(reqs) :
          LET rq == reqs[i]
          IN /\ rq.st = "owned" /\ reqs'[i].got > rq.got =>
                  /\ ~rq.armed
                  /\ Expects100(rq) => Hundreds(rq.wslot) # {}
                  /\ wire' = wire
             /\ rq.armed /\ ~reqs'[i].armed =>
                  /\ rq.st = "owned" /\ reqs'[i].st = "owned"
                  /\ reqs'[i].got = 0
                  /\ delivered' = delivered
                  /\ Len(wire') = Len(wire) + 1
                  /\ wire'[Len(wire')].slot = rq.wslot
                  /\ wire'[Len(wire')].status = 100]_vars

\* the client held the body back: the first read wrote 100 Continue, the
\* body was then sent as a message of its own, and one byte of it is read
W_C15 ==
  /\ Len(reqs) = 1 /\ Expects100(reqs[1])
  /\ Cardinality(marks) = 2
  /\ reqs[1].got = 1 /\ ~reqs[1].bodyRead
  /\ Cardinality(Hundreds(reqs[1].wslot)) = 1

\* ------------------------------------------- reading back what raw_print wrote
\* one pass over the bytes: the lines up to the first empty line, and the
\* index of the first byte after that empty line
RECURSIVE ReadHead(_, _, _, _)
ReadHead(b, i, line, acc) ==
  IF i > Len(b) THEN [lines |-> acc, body |-> i]
  ELSE IF b[i] = CR /\ i < Len(b) /\ b[i + 1] = LF
       THEN IF line = <<>> THEN [lines |-> acc, body |-> i + 2]
            ELSE ReadHead(b, i + 2, <<>>, Append(acc, line))
  ELSE ReadHead(b, i + 1, Append(line, b[i]), acc)

\* what raw_print wrote, read back: p.lines are the status line and the
\* header lines, p.body is where the body starts
Wire == ReadHead(emitted.bytes, 1, <<>>, <<>>)

\* the bytes after the blank line that ends the header block
BodyOf(p) == SubSeq(emitted.bytes, p.body, Len(emitted.bytes))

\* the values the header block has for a name, in the order of the lines
WireValues(p, name) ==
  LET named(l) == Len(l) = 4 /\ l[1] = name /\ l[2] = COLON /\ l[3] = SP
      l == SelectSeq(Tail(p.lines), named)
  IN [k \in 1..Len(l) |-> l[k][4]]

HexValue(d) ==
  IF \E k \in 1..16 : HexDigits[k] = d
  THEN (CHOOSE k \in 1..16 : HexDigits[k] = d) - 1 ELSE -1

RECURSIVE FromHex(_)
FromHex(ds) ==
  IF ds = <<>> THEN -1
  ELSE IF Len(ds) = 1 THEN HexValue(ds[1])
  ELSE LET hi == FromHex(SubSeq(ds, 1, Len(ds) - 1))
           lo == HexValue(ds[Len(ds)])
       IN IF hi < 0 \/ lo < 0 THEN -1 ELSE 16 * hi + lo

\* a chunked body read back: the data of its chunks, and whether it is well
\* formed up to and including the last chunk, with nothing after it
RECURSIVE DecodeChunks(_, _)
DecodeChunks(s, acc) ==
  LET i == FirstIndex(s, CR)
      n == IF i > 1 THEN FromHex(SubSeq(s, 1, i - 1)) ELSE -1
      rest == Drop(s, i + 1)
      bad == [ok |-> FALSE, data |-> acc]
  IN IF n < 0 \/ Len(s) < i + 1 THEN bad
     ELSE IF s[i + 1] # LF THEN bad
     ELSE IF n = 0 THEN [ok |-> rest = <<CR, LF>>, data |-> acc]
     ELSE IF Len(rest) < n + 2 THEN bad
     ELSE IF SubSeq(rest, n + 1, n + 2) # <<CR, LF>> THEN bad
     ELSE DecodeChunks(Drop(rest, n + 2), acc \o Take(rest, n))

Sent == emitted.st = "sent"

\* the status of the response rules a body out
BodilessStatus ==
  (resp.status_code >= 100 /\ resp.status_code <= 199)
    \/ resp.status_code = 204 \/ resp.status_code = 304

\* C16: a Response never holds a Connection, Trailer, Transfer-Encoding or
\* Upgrade header, whatever was passed to Response::new, add_header and
\* with_header; a call with one of these names changes nothing of the
\* response; and on the wire Trailer never appears, Transfer-Encoding only
\* as chunked, Connection and Upgrade only in an upgrade response, with the
\* values upgrade and the caller's protocol token.
T_C16 ==
  /\ [](resp.st = "built" =>
          /\ \A i \in 1..Len(resp.headers) :
               resp.headers[i].name \notin ForbiddenHeaders
          /\ \A name \in ForbiddenHeaders :
               add_header(resp, name, "evil") = resp)
  /\ [][resp.st = "built" /\ resp'.st = "built"
          /\ resp'.ignored > resp.ignored =>
         resp' = [resp EXCEPT !.added = @ + 1, !.ignored = @ + 1]]_vars
  /\ [](Sent =>
          \A p \in {Wire} :
            /\ WireValues(p, "trailer") = <<>>
            /\ WireValues(p, "transfer-encoding") \in {<<>>, <<"chunked">>}
            /\ WireValues(p, "connection") =
                 IF emitted.upgrade = <<>> THEN <<>> ELSE <<"upgrade">>
            /\ WireValues(p, "upgrade") = emitted.upgrade)

\* two calls with ignored names, an application header, and an upgrade
\* response on the wire
W_C16 ==
  /\ Sent /\ emitted.upgrade # <<>>
  /\ resp.ignored = 2
  /\ HMHas(resp.headers, "content-type")

\* C17: when raw_print sends a body under a Content-Length header, the
\* number of bytes after the header block is the value of that header.
CE_C17 ==
  Sent /\ ~emitted.do_not_send_body /\ ~BodilessStatus =>
    \A p \in {Wire} :
      \A k \in 1..Len(WireValues(p, "content-length")) :
        ParseUsize(WireValues(p, "content-length")[k]) = Len(BodyOf(p))

\* C18: a response of status 1xx, 204 or 304, and a response sent with
\* do_not_send_body, ends with the blank line of its header block.
T_C18 ==
  Sent /\ (BodilessStatus \/ emitted.do_not_send_body) =>
    \A p \in {Wire} :
      /\ p.body = Len(emitted.bytes) + 1
      /\ BodyOf(p) = <<>>
      /\ SubSeq(emitted.bytes, p.body - 4, p.body - 1) = <<CR, LF, CR, LF>>

\* a 304 for an HTTP/1.1 request that asks for chunked, with a body reader
\* of two bytes and no declared length
W_C18 ==
  /\ Sent /\ resp.status_code = 304 /\ ~emitted.do_not_send_body
  /\ emitted.http_version = HTTP_11 /\ emitted.te = <<"chunked">>
  /\ emitted.upgrade = <<>>
  /\ Len(resp.reader) = 2 /\ resp.data_length = -1

\* the body goes out
SentBody == Sent /\ ~emitted.do_not_send_body /\ ~BodilessStatus

\* C19: a body sent chunked is a sequence of chunks, each its length in
\* hexadecimal, CRLF, its data, CRLF, whose data together are the bytes of
\* the body reader, ended by the last chunk 0 CRLF CRLF; an empty body is
\* the last chunk alone.
T_C19 ==
  SentBody =>
    \A p \in {Wire} :
      WireValues(p, "transfer-encoding") = <<"chunked">> =>
        /\ DecodeChunks(BodyOf(p), <<>>) = [ok |-> TRUE, data |-> resp.reader]
        /\ resp.reader = <<>> => BodyOf(p) = <<"0", CR, LF, CR, LF>>

\* a two-byte body sent as one chunk and the last chunk
W_C19 ==
  /\ SentBody
  /\ resp.reader = <<"x", "y">>
  /\ WireValues(Wire, "transfer-encoding") = <<"chunked">>
  /\ BodyOf(Wire) = <<"2", CR, LF, "x", "y", CR, LF, "0", CR, LF, CR, LF>>

\* C20: a response that is not an upgrade has exactly one framing header,
\* Transfer-Encoding: chunked or Content-Length: n, once; an upgrade
\* response has neither and no body.
T_C20 ==
  Sent =>
    \A p \in {Wire} :
      \A te \in {WireValues(p, "transfer-encoding")},
         cl \in {WireValues(p, "content-length")} :
        IF emitted.upgrade = <<>>
        THEN /\ Len(te) + Len(cl) = 1
             /\ te # <<>> => te = <<"chunked">>
             /\ cl # <<>> => ParseUsize(cl[1]) >= 0
        ELSE te = <<>> /\ cl = <<>> /\ BodyOf(p) = <<>>

\* an upgrade response to an HTTP/1.1 request that asks for chunked, built
\* with a body and two more header insertions
W_C20 ==
  /\ Sent /\ emitted.upgrade # <<>>
  /\ emitted.http_version = HTTP_11 /\ emitted.te = <<"chunked">>
  /\ resp.status_code = 200 /\ resp.reader # <<>> /\ resp.added = 2
  /\ ~emitted.do_not_send_body

\* ------------------------------------ reading a TE header value on its own
Chosen == emitted.st = "chosen"

\* the encoding a token names, whatever its case
NamedEncoding(token) ==
  IF token \in {<<"chunked">>, <<"Chunked">>} THEN "Chunked"
  ELSE IF token \in {<<"identity">>, <<"Identity">>} THEN "Identity"
  ELSE "None"

\* the elements of a TE value that can be chosen: a recognised token with
\* q > 0
Qualifying(elems) ==
  { k \in 1..Len(elems) :
      elems[k].q > 0 /\ NamedEncoding(elems[k].token) # "None" }

\* the qualifying element of greatest q, the earliest listed of them
Best(elems) ==
  CHOOSE k \in Qualifying(elems) :
    \A j \in Qualifying(elems) :
      elems[j].q < elems[k].q \/ (elems[j].q = elems[k].q /\ j >= k)

T_C28 ==
  Chosen /\ emitted.http_version >= HTTP_11 /\ emitted.te # <<>>
    /\ emitted.status_code \notin 100..199 \cup {204} =>
    LET elems == parse_header_value(emitted.te)
    IN IF Qualifying(elems) # {}
       THEN /\ emitted.result = NamedEncoding(elems[Best(elems)].token)
            /\ \E k \in 1..Len(elems) :
                 /\ elems[k].q > 0
                 /\ NamedEncoding(elems[k].token) = emitted.result
       ELSE emitted.result =
              choose_transfer_encoding(
                emitted.status_code, <<>>, emitted.http_version,
                emitted.entity_length, emitted.has_additional_headers,
                chunked_threshold(emitted))

\* TE: chunked;q=0.5, Identity on a short body of known length: the
\* element listed second has the greater q and is chosen
W_C28 ==
  /\ Chosen /\ emitted.http_version = HTTP_11 /\ emitted.status_code = 200
  /\ emitted.te = <<"chunked", ";", "q=", "0.5", ",", SP, "Identity">>
  /\ emitted.entity_length = 0 /\ emitted.chunked_threshold = 1
  /\ emitted.result = "Identity"

\* C22: a response built with an additional_headers channel, sent for an
\* HTTP/1.1 request whose TE header selects nothing, with a status that is
\* neither 1xx nor 204, goes out with Transfer-Encoding: chunked, whatever
\* its declared length.
CE_C22 ==
  Sent /\ resp.channel /\ emitted.http_version = HTTP_11
    /\ emitted.upgrade = <<>> /\ emitted.te \in {<<>>, <<"other">>}
    /\ resp.status_code \notin 100..199 \cup {204} =>
    WireValues(Wire, "transfer-encoding") = <<"chunked">>

\* the values a header map holds for a name, in the order it yields them
ValuesOf(h, name) ==
  LET named(e) == e.name = name
      l == SelectSeq(h, named)
  IN [k \in 1..Len(l) |-> l[k].value]

Built == resp.st = "built"

\* the header names of the checks: Content-Type and two ordinary names
PlainNames == {"x-a", "x-b"}

CheckedNames == PlainNames \cup {"content-type", "date"}

\* C23: a Response holds at most one Content-Type value, and add_header
\* with Content-Type leaves exactly the value of that call; add_header with
\* an ordinary name puts its value after the values the name already has,
\* duplicates included; in both cases the values of every other name stay
\* as they are.
T_C23 ==
  /\ [](Built =>
          /\ Len(ValuesOf(resp.headers, "content-type")) <= 1
          /\ \A t \in {"text/a", "text/b"} :
               \A r \in {add_header(resp, "content-type", t)} :
                 /\ ValuesOf(r.headers, "content-type") = <<t>>
                 /\ \A n \in CheckedNames \ {"content-type"} :
                      ValuesOf(r.headers, n) = ValuesOf(resp.headers, n)
          /\ \A name \in PlainNames, v \in {"v", "w"} :
               \A r \in {add_header(resp, name, v)} :
                 /\ ValuesOf(r.headers, name) =
                      Append(ValuesOf(resp.headers, name), v)
                 /\ \A n \in CheckedNames \ {name} :
                      ValuesOf(r.headers, n) = ValuesOf(resp.headers, n))
  /\ [][Built /\ resp'.st = "built" =>
         \A n \in PlainNames :
           SubSeq(ValuesOf(resp'.headers, n), 1,
                  Len(ValuesOf(resp.headers, n)))
             = ValuesOf(resp.headers, n)]_vars

\* a Response that holds a Content-Type and twice the same value of an
\* ordinary name
W_C23 ==
  /\ Built
  /\ ValuesOf(resp.headers, "content-type") = <<"text/a">>
  /\ ValuesOf(resp.headers, "x-a") = <<"v", "v">>

\* C24: a Response never holds a Content-Length entry; add_header with
\* Content-Length and a value that parses sets data_length to it and
\* changes nothing else; with a value that does not parse it changes
\* nothing.
T_C24 ==
  Built =>
    /\ ValuesOf(resp.headers, "content-length") = <<>>
    /\ \A p \in {<<"0", 0>>, <<"2", 2>>, <<"3", 3>>} :
         add_header(resp, "content-length", p[1])
           = [resp EXCEPT !.data_length = p[2]]
    /\ \A v \in {"evil", "-1", "1x"} :
         add_header(resp, "content-length", v) = resp

\* Content-Length: 3 was added to a Response whose reader yields less
W_C24 ==
  /\ Built /\ resp.added = 2 /\ resp.data_length = 3
  /\ Len(resp.reader) < 3
  /\ resp.headers = <<[name |-> "x-a", value |-> "v"]>>

\* C25: the Display text of a parsed Header parses again, to the same
\* field up to case and to the same value; and it is the line itself with
\* the white space between the first colon and the value replaced by one
\* space and the white space after the value removed.
T_C25 ==
  emitted.st = "shown" =>
    /\ \A back \in {Header_from_str(emitted.text)} :
         /\ back.st = "Ok"
         /\ LowerSeq(back.field) = LowerSeq(hres.field)
         /\ back.value = hres.value
    /\ \E i \in 1..Len(hline) :
         /\ hline[i] = COLON /\ \A j \in 1..(i - 1) : hline[j] # COLON
         /\ \E a \in (i + 1)..(Len(hline) + 1), b \in i..Len(hline) :
              /\ \A j \in (i + 1)..(a - 1) : IsWhitespace(hline[j])
              /\ \A j \in (b + 1)..Len(hline) : IsWhitespace(hline[j])
              /\ a <= b => ~IsWhitespace(hline[a]) /\ ~IsWhitespace(hline[b])
              /\ a > b => a = b + 1
              /\ emitted.text = SubSeq(hline, 1, i - 1) \o <<COLON, SP>>
                                  \o SubSeq(hline, a, b)

\* a line without space after the colon and with one after the value
W_C25 ==
  /\ emitted.st = "shown"
  /\ hline = <<"a", COLON, "a", SP>>
  /\ emitted.text = <<"a", COLON, SP, "a">>

\* C26: whenever an operation of RustlsStream is running, its caller holds
\* the mutex of the session, so at most one operation runs at a time; the
\* mutex is held only by a caller that is inside an operation, and it is
\* free again when the operation has returned.
T_C26 ==
  /\ [](\A t \in TlsHolders :
          /\ tls.pc[t] = "inside" => tls.mutex = t
          /\ tls.mutex = t => tls.pc[t] = "inside" /\ tls.op[t] \in TlsOps)
  /\ [](Cardinality({t \in TlsHolders : tls.pc[t] = "inside"}) <= 1)
  /\ [][\A t \in TlsHolders :
          tls.pc[t] = "inside" /\ tls'.pc[t] = "idle" =>
            tls'.mutex = "free"]_vars

\* the reader is inside read while the writer, having returned from one
\* call, waits for the mutex in write
W_C26 ==
  /\ tls.pc["reader"] = "inside" /\ tls.op["reader"] = "read"
  /\ tls.pc["writer"] = "lock" /\ tls.op["writer"] = "write"
  /\ tls.done["writer"] = 1
  /\ tls.mutex = "reader"

\* the index of the CR of the first CR LF pair of s, 0 when it has none
FirstCRLF(s) ==
  IF \E i \in 1..(Len(s) - 1) : s[i] = CR /\ s[i + 1] = LF
  THEN CHOOSE i \in 1..(Len(s) - 1) :
         /\ s[i] = CR /\ s[i + 1] = LF
         /\ \A j \in 1..(i - 1) : ~(s[j] = CR /\ s[j + 1] = LF)
  ELSE 0

\* C27: read_next_line returns the bytes before the first CR LF pair and
\* leaves the stream at the byte after that LF; without such a pair before
\* the end of the input it fails with ConnectionAborted.
CE_C27 ==
  hres.st # "none" =>
    \A i \in {FirstCRLF(hline)} :
      IF i = 0 THEN hres.st = "ConnectionAborted"
      ELSE /\ hres.st = "Ok"
           /\ hres.line = SubSeq(hline, 1, i - 1)
           /\ hres.rest = SubSeq(hline, i + 2, Len(hline))

\* C27, amended: as above when the bytes before the first CR LF pair are
\* all ASCII; when they are not, the call fails with InvalidInput and
\* leaves the stream at the byte after that LF all the same.
T_C27 ==
  hres.st # "none" =>
    \A i \in {FirstCRLF(hline)} :
      IF i = 0 THEN hres.st = "ConnectionAborted"
      ELSE /\ hres.rest = SubSeq(hline, i + 2, Len(hline))
           /\ IF \E j \in 1..(i - 1) : hline[j] = NONASCII
              THEN hres.st = "InvalidInput"
              ELSE /\ hres.st = "Ok"
                   /\ hres.line = SubSeq(hline, 1, i - 1)

\* a line that holds a lone LF, followed by the first byte of the next line
W_C27 ==
  /\ hres.st = "Ok"
  /\ hline = <<LF, CR, LF, "a">>
  /\ hres.line = <<LF>> /\ hres.rest = <<"a">>

\* C29: in an upgrade response the first two header lines after the
\* status line are Upgrade: <token> and Connection: upgrade, in this order,
\* and each of the two names is on one line only (names and the value of
\* Connection compared without regard to case).
CE_C29 ==
  Sent /\ emitted.upgrade # <<>> =>
    \A p \in {Wire} :
      /\ Len(p.lines) >= 3
      /\ p.lines[2] = <<"upgrade", COLON, SP, emitted.upgrade[1]>>
      /\ p.lines[3] = <<"connection", COLON, SP, "upgrade">>
      /\ Len(WireValues(p, "upgrade")) = 1
      /\ Len(WireValues(p, "connection")) = 1

\* C30: once next() has a request of a version above 1.1 in hand, the 505
\* gets written and next() moves on: the write of the 505 does not wait
\* for ever for the writer slot of the rejected request.
CE_C30 ==
  (pc = "respond_error" /\ pending.status = 505
     /\ reqs[pending.held].wslot \notin wclosed)
    ~> (Sent505 /\ pc # "respond_error")

AssertedEncoding ==
  raw_print_transfer_encoding(resp, emitted.http_version, emitted.te,
                              emitted.upgrade)

AssertedLength == raw_print_data_length(resp, AssertedEncoding)

\* C32: in every raw_print whose transfer encoding is Identity when the
\* headers are prepared and when the body is copied, the local data_length
\* is Some: both assertions hold, and the length is the declared one or,
\* when none was declared, the number of bytes read from the reader, and
\* it is the Content-Length that is written.
T_C32 ==
  Sent /\ AssertedEncoding = "Identity" =>
    /\ AssertedLength >= 0
    /\ resp.data_length < 0 => AssertedLength = Len(resp.reader)
    /\ resp.data_length >= 0 => AssertedLength = resp.data_length
    /\ WireValues(Wire, "content-length") = <<ToString(AssertedLength)>>

\* an HTTP/1.0 response of unknown length with a body: Identity, and both
\* assertions are passed with the buffered length
W_C32 ==
  /\ Sent /\ AssertedEncoding = "Identity"
  /\ resp.data_length < 0 /\ Len(resp.reader) = 2
  /\ emitted.http_version = HTTP_10
  /\ ~emitted.do_not_send_body /\ resp.status_code = 200
  /\ WireValues(Wire, "content-length") = <<"2">>
  /\ BodyOf(Wire) = resp.reader

\* C33: next() never panics: the connection thread is never left inside
\* next() by a panic, whatever the client sent and whatever peer_addr()
\* returned when the connection was made.
CE_C33 == pc # "panicked"

\* the files handed to from_pem hold no certificate, or no key of either
\* kind
NoCertificate ==
  \A i \in 1..Len(hline.certificates) : hline.certificates[i] # "CERT"

NoPrivateKey ==
  \A i \in 1..Len(hline.private_key) :
    hline.private_key[i] \notin {"PKCS8", "PKCS8-unusable", "RSA"}

\* C34: from_pem returns Err and does not panic when the certificate file
\* holds no certificate or the key file holds neither a PKCS#8 nor a
\* PKCS#1 key; otherwise the configuration is built with the first PKCS#8
\* key when there is one, else with the first PKCS#1 key.
CE_C34 ==
  hres.st # "none" =>
    /\ hres.st # "panic"
    /\ NoCertificate \/ NoPrivateKey => hres.st = "Err"
    /\ hres.st = "Ok" =>
         \A p \in {PemItems(hline.private_key, {"PKCS8", "PKCS8-unusable"})} :
           hres.key = IF p.v # <<>> THEN p.v[1]
                      ELSE PemItems(hline.private_key, {"RSA"}).v[1]
====
